---- MODULE Spec2Model ----
\* Remediation execution engine, escalation manager and action handler of
\* MeshCentral-ScriptTask, as a state machine over the document store.
\*
\* Granularity: one action is one store operation (an await on the store)
\* together with the synchronous code that follows it up to the next await.
\* Tasks (trigger calls, cancel calls, advancement loops, the initializer)
\* interleave at these points only, as they do on the single-threaded event
\* loop.  The store is reliable for the engine: its operations do not raise.
\*
\* The advanced scheduler (src/scheduler) is modelled over the same job
\* collection: firings of schedules, the maintenance-window, dependency and
\* concurrency gates, the job queue.  There the lookups of the gates may
\* raise, as inputs of the actions.
\*
\* Spec is the remediation engine, SpecValidate the trigger path over an
\* enumerated family of workflow documents, SpecSched the scheduler.
\* SpecSteps follows one execution together with the work its timed-out
\* attempts leave behind, SpecQuarantine the executions of a workflow whose
\* escalation quarantines the node, SpecTerm one execution under fairness of
\* the loop's store operations and timers.  SpecLife is the scheduler with its
\* cron timers and its administrative calls (pause, resume, update, delete,
\* shutdown, initialize), each of them one action.  SpecPure holds the calls that change
\* nothing (getNextRuns), SpecCond the ConditionEvaluator applied to
\* enumerated conditions and step results.
EXTENDS Integers, Sequences, FiniteSets, TLC

Null == "none"

\* ---------------------------------------------------------------- bounds
MaxCalls == 2      \* triggerWorkflow calls per behaviour
MaxCancels == 1    \* cancelExecution calls per behaviour
MaxRestarts == 1   \* process restarts per behaviour
MaxTries == 3      \* cap on executeStep invocations for one step
MaxTiers == 3      \* longest tier list of the escalation policies tried
MaxSteps == 2      \* steps of the workflows enumerated for validation
MaxFirings == 2    \* handleScheduleTrigger calls per behaviour
MaxTime == 2       \* last instant of the clock
MaxDisconnects == 1 \* agents that disconnect per behaviour
MaxCount == 3      \* largest count asked of getNextRuns

DefaultMaxAttempts == 3

Nodes == {"n1", "n2"}
WorkflowId == "w1"

Calls == 1..MaxCalls
ExecIds == 1..MaxCalls

\* ------------------------------------------------------- workflow records
ScriptStep(id, os, of, rb, ma) ==
    [id |-> id, type |-> "script", onSuccess |-> os, onFailure |-> of,
     onTrue |-> Null, onFalse |-> Null, rollbackScriptId |-> rb, maxAttempts |-> ma,
     backoffType |-> Null, delaySeconds |-> 0]

WebhookStep(id, os, of) ==
    [id |-> id, type |-> "webhook", onSuccess |-> os, onFailure |-> of,
     onTrue |-> Null, onFalse |-> Null, rollbackScriptId |-> Null, maxAttempts |-> 0,
     backoffType |-> Null, delaySeconds |-> 0]

\* a delay step (engine.js 257-259, 459-477); its duration is not bounded
\* by its timeout
DelayStep(id, os, of) ==
    [id |-> id, type |-> "delay", onSuccess |-> os, onFailure |-> of,
     onTrue |-> Null, onFalse |-> Null, rollbackScriptId |-> Null, maxAttempts |-> 0,
     backoffType |-> Null, delaySeconds |-> 0]

\* step.retryPolicy with a backoff (escalation.js 25-28); an absent field is
\* Null or 0
WithBackoff(step, backoffType, delaySeconds) ==
    [step EXCEPT !.backoffType = backoffType, !.delaySeconds = delaySeconds]

ConditionStep(id, ot, ofl) ==
    [id |-> id, type |-> "condition", onSuccess |-> Null, onFailure |-> Null,
     onTrue |-> ot, onFalse |-> ofl, rollbackScriptId |-> Null, maxAttempts |-> 0,
     backoffType |-> Null, delaySeconds |-> 0]

Workflow(steps, start, rb, esc, pol) ==
    [steps |-> steps, startStep |-> start, rollbackEnabled |-> rb,
     escalationEnabled |-> esc, escalationPolicyId |-> pol, enabled |-> TRUE,
     present |-> TRUE]

\* workflow.steps.find(s => s.id === id): index of the first match, 0 if none
StepIndex(steps, id) ==
    LET hits == {i \in 1..Len(steps) : steps[i].id = id}
    IN IF hits = {} THEN 0 ELSE CHOOSE i \in hits : \A j \in hits : i <= j

StepIdsOf(steps) == {steps[i].id : i \in 1..Len(steps)}

\* stepMap.get(id) after stepMap.set for every step in order: the last step
\* with that id, 0 if none (part_003 219-222)
StepMapIndex(steps, id) ==
    LET hits == {i \in 1..Len(steps) : steps[i].id = id}
    IN IF hits = {} THEN 0 ELSE CHOOSE i \in hits : \A j \in hits : i >= j

\* detectCycle (part_003 224-264) on st = the visited set, the recursion stack
\* and the number of errors pushed so far
RECURSIVE detectCycle(_, _, _)
detectCycle(steps, stepId, st) ==
    IF stepId = Null THEN st
    ELSE IF stepId \in st.stack THEN [st EXCEPT !.errors = @ + 1]
    ELSE IF stepId \in st.visited THEN st
    ELSE LET k == StepMapIndex(steps, stepId)
             s0 == [st EXCEPT !.visited = @ \cup {stepId}, !.stack = @ \cup {stepId}]
             s1 == IF k = 0 THEN s0 ELSE detectCycle(steps, steps[k].onSuccess, s0)
             s2 == IF k = 0 THEN s1 ELSE detectCycle(steps, steps[k].onFailure, s1)
             s3 == IF k # 0 /\ steps[k].type = "condition"
                   THEN detectCycle(steps, steps[k].onTrue, s2) ELSE s2
             s4 == IF k # 0 /\ steps[k].type = "condition"
                   THEN detectCycle(steps, steps[k].onFalse, s3) ELSE s3
         IN [s4 EXCEPT !.stack = @ \ {stepId}]

\* the loop over the steps not visited yet (part_003 271-276)
RECURSIVE detectUnvisited(_, _, _)
detectUnvisited(steps, i, st) ==
    IF i > Len(steps) THEN st
    ELSE detectUnvisited(steps, i + 1,
                         IF steps[i].id \in st.visited THEN st
                         ELSE detectCycle(steps, steps[i].id, st))

\* the check started at startStep only
checkCircularDependenciesFromStart(wf) ==
    detectCycle(wf.steps, wf.startStep,
                [visited |-> {}, stack |-> {}, errors |-> 0]).errors = 0

\* TRUE iff no circular-dependency error is reported (part_003 214-279)
checkCircularDependencies(wf) ==
    LET st == detectCycle(wf.steps, wf.startStep,
                          [visited |-> {}, stack |-> {}, errors |-> 0])
    IN detectUnvisited(wf.steps, 1, st).errors = 0

validateWorkflow(wf) ==
    /\ Len(wf.steps) > 0
    /\ Cardinality(StepIdsOf(wf.steps)) = Len(wf.steps)
    /\ \A i \in 1..Len(wf.steps) :
          LET s == wf.steps[i] IN
          /\ s.onSuccess # Null => s.onSuccess \in StepIdsOf(wf.steps)
          /\ s.onFailure # Null => s.onFailure \in StepIdsOf(wf.steps)
          /\ s.type = "condition" => (s.onTrue # Null \/ s.onFalse # Null)
    /\ wf.startStep # Null
    /\ wf.startStep \in StepIdsOf(wf.steps)
    /\ checkCircularDependencies(wf)

\* ------------------------------------------------------------- scenarios
\* check -> cleanup, alert on failure (the end-to-end scenario of the docs)
WfCheckCleanup ==
    Workflow(<<ScriptStep("a", "b", "c", Null, 0), ScriptStep("b", Null, Null, Null, 0),
               WebhookStep("c", Null, Null)>>, "a", FALSE, FALSE, Null)

\* rollback scripts declared, a condition step whose onFalse target is dangling
WfRollback ==
    Workflow(<<ScriptStep("a", "b", Null, "rb-a", 1), ConditionStep("b", "c", "zz"),
               ScriptStep("c", Null, Null, "rb-c", 0)>>, "a", TRUE, FALSE, Null)

\* a single step with no failure path and escalation enabled
WfEscalate ==
    Workflow(<<ScriptStep("a", Null, Null, Null, 1)>>, "a", FALSE, TRUE, "p1")

\* one notification step with no failure path and escalation enabled
WfAlarm == Workflow(<<WebhookStep("a", Null, Null)>>, "a", FALSE, TRUE, "p1")

\* one notification step
WfNotify == Workflow(<<WebhookStep("a", Null, Null)>>, "a", TRUE, FALSE, Null)

\* a -> b -> a: rejected by validation
WfCycle ==
    Workflow(<<ScriptStep("a", "b", Null, Null, 0), ScriptStep("b", "a", Null, Null, 0)>>,
             "a", FALSE, FALSE, Null)

Workflows == {WfCheckCleanup, WfRollback, WfEscalate, WfNotify, WfCycle}

\* ------------------------------------------------------ escalation policies
\* tiers are named by what executeTier does with them; "null" is a tier entry
\* that is not an object, "noScript" a runScript tier without scriptId
Policy(present, hasTiers, tiers) ==
    [present |-> present, hasTiers |-> hasTiers, tiers |-> tiers]
NoPolicy == Policy(FALSE, FALSE, <<>>)
TierTypes == {"runScript", "noScript", "webhook", "email", "quarantine", "customAction",
              "unknown", "null"}

\* every tier list of at most MaxTiers entries, and a policy stored without one
Policies ==
    {Policy(TRUE, TRUE, t) : t \in UNION {[1..k -> TierTypes] : k \in 0..MaxTiers}}
      \cup {Policy(TRUE, FALSE, <<>>), NoPolicy}

VARIABLES
    workflow,     \* the stored remediation_workflow document
    budget,       \* how many calls and restarts the behaviour may make, and
                  \* whether it follows the work of abandoned attempts
    policy,       \* the stored escalation_policy document
    execs,        \* remediation_execution documents, in insertion order
    jobs,         \* job documents, in insertion order
    alerts,       \* alert documents (administrator alerts), in insertion order
    quarantine,   \* node_quarantine documents, in insertion order
    trig,         \* triggerWorkflow calls: position and locals
    canc,         \* the cancelExecution call: position and locals
    lp,           \* advancement loops (executeWorkflow), one per execution
    init,         \* the process: restarts so far, initialize()'s position
    timers,       \* stepTimers: armed step timeouts, as <<execution, stepId>>
    active        \* activeExecutions keys

\* the advanced scheduler (src/scheduler)
VARIABLES
    env,          \* stored maintenance windows, configuration, the cron library
    schedules,    \* schedule_v2 documents by id
    wsagents,     \* meshServer.webserver.wsagents: mesh of each connected node
    clock,        \* Date.now()
    fir,          \* handleScheduleTrigger calls: position and locals
    tasks,        \* createJobForSchedule calls started by timers
    jobQueue,     \* AdvancedScheduler.jobQueue
    cronJobs,     \* AdvancedScheduler.cronJobs: the armed Cron of each schedule id
    checkInterval \* AdvancedScheduler.checkInterval is set

\* the timers of the scheduler
lifeVars == <<cronJobs, checkInterval>>

schedVars == <<env, schedules, wsagents, clock, fir, tasks, jobQueue, lifeVars>>

\* a call of an operation that changes nothing: its arguments, its result
VARIABLES call

vars == <<call, schedVars, workflow, policy, budget, execs, jobs, alerts, quarantine, trig,
          canc, lp, init, timers, active>>

NoCall == [fn |-> Null]

IdleCall == [pc |-> "idle", node |-> Null, ret |-> 0, created |-> FALSE, hadRunning |-> {}]
IdleCancel == [pc |-> "idle", exec |-> 0, used |-> 0]
IdleLoop == [pc |-> "none", cur |-> Null, next |-> Null, res |-> Null, job |-> 0,
             tries |-> 0, final |-> Null, reason |-> Null, tier |-> 0,
             tierLog |-> <<>>, escRet |-> Null, late |-> {}, stray |-> {}, delay |-> 0]
IdleInit == [pc |-> "idle", queue |-> <<>>, restarts |-> 0, interrupted |-> {}]

\* ------------------------------------------------------------ store reads
ExecDocs == 1..Len(execs)

\* findOne({type: 'remediation_execution', workflowId, nodeId, status: 'running'})
RunningFor(wfId, node) ==
    {e \in ExecDocs : /\ execs[e].workflowId = wfId
                      /\ execs[e].nodeId = node
                      /\ execs[e].status = "running"}

Min(S) == CHOOSE x \in S : \A y \in S : x <= y

\* the lookup with the status filter of a job document instead
FindExistingPending(wfId, node) ==
    LET hits == {e \in ExecDocs : /\ execs[e].workflowId = wfId
                                  /\ execs[e].nodeId = node
                                  /\ execs[e].status = "pending"}
    IN IF hits = {} THEN 0 ELSE Min(hits)

FindExisting(wfId, node) ==
    IF RunningFor(wfId, node) = {} THEN 0 ELSE Min(RunningFor(wfId, node))

NewExecution(node) ==
    [workflowId |-> WorkflowId, nodeId |-> node, status |-> "running",
     currentStep |-> workflow.startStep, stepResults |-> <<>>,
     completionReason |-> Null, alerts |-> <<>>]

\* ---------------------------------------------------------- triggerWorkflow
\* invocation and the workflow lookup (engine.js 81-92)
TriggerCall(c, n) ==
    /\ trig[c].pc = "idle"
    /\ \A d \in Calls : d < c => trig[d].pc # "idle"
    /\ c <= budget.calls
    /\ init.pc = "idle"
    /\ trig' = [trig EXCEPT ![c] =
                  [@ EXCEPT !.node = n,
                            !.pc = IF workflow.present /\ workflow.enabled
                                   THEN "lookup" ELSE "error"]]
    /\ UNCHANGED <<call, schedVars, workflow, policy, budget, execs, jobs, alerts, quarantine, canc, lp, init,
                   timers, active>>

\* the running-execution lookup with the validation result ignored
TriggerLookupNoValidation(c) ==
    /\ trig[c].pc = "lookup"
    /\ LET existing == FindExisting(WorkflowId, trig[c].node)
           seen == RunningFor(WorkflowId, trig[c].node)
       IN trig' = [trig EXCEPT ![c] =
                     IF existing # 0
                     THEN [@ EXCEPT !.pc = "done", !.ret = existing, !.hadRunning = seen]
                     ELSE [@ EXCEPT !.pc = "insert", !.hadRunning = seen]]
    /\ UNCHANGED <<call, schedVars, workflow, policy, budget, execs, jobs, alerts, quarantine, canc, lp, init,
                   timers, active>>

\* the running-execution lookup, then validation (engine.js 94-113)
TriggerLookup(c) ==
    /\ trig[c].pc = "lookup"
    /\ LET existing == FindExisting(WorkflowId, trig[c].node)
           seen == RunningFor(WorkflowId, trig[c].node)
       IN trig' = [trig EXCEPT ![c] =
                     IF existing # 0
                     THEN [@ EXCEPT !.pc = "done", !.ret = existing, !.hadRunning = seen]
                     ELSE [@ EXCEPT !.pc = IF validateWorkflow(workflow)
                                           THEN "insert" ELSE "error",
                                    !.hadRunning = seen]]
    /\ UNCHANGED <<call, schedVars, workflow, policy, budget, execs, jobs, alerts, quarantine, canc, lp, init,
                   timers, active>>

\* insertOne, activeExecutions.set, executeWorkflow started (engine.js 115-146)
TriggerInsert(c) ==
    /\ trig[c].pc = "insert"
    /\ LET id == Len(execs) + 1 IN
       /\ execs' = Append(execs, NewExecution(trig[c].node))
       /\ active' = active \cup {id}
       /\ lp' = [lp EXCEPT ![id] = [IdleLoop EXCEPT !.pc = "check",
                                                    !.cur = workflow.startStep]]
       /\ trig' = [trig EXCEPT ![c] = [@ EXCEPT !.pc = "done", !.ret = id,
                                                !.created = TRUE]]
    /\ UNCHANGED <<call, schedVars, workflow, policy, budget, jobs, alerts, quarantine, canc, init, timers>>

\* ------------------------------------------------------- completeExecution
\* updateOne of status and reason, activeExecutions.delete, timers cleared
\* (engine.js 636-659); the caller continues with the rollback check
CompleteWrite(e, status, reason) ==
    /\ execs' = [execs EXCEPT ![e] = [@ EXCEPT !.status = status,
                                               !.completionReason = reason]]
    /\ active' = active \ {e}
    /\ timers' = {t \in timers : t[1] # e}

\* engine.js 662-672: rollback is asked for on 'failed' with rollbackEnabled
WantsRollback(status) == status = "failed" /\ workflow.rollbackEnabled

\* ---------------------------------------------------------- performRollback
\* actions.js 276-288: walk the persisted step results from last to first
\* the walk from first to last
RECURSIVE RollbackStepsForward(_, _)
RollbackStepsForward(results, i) ==
    IF i = 0 THEN <<>>
    ELSE LET r == results[i]
             k == StepIndex(workflow.steps, r.stepId)
             hit == /\ r.status = "success"
                    /\ k # 0
                    /\ workflow.steps[k].rollbackScriptId # Null
         IN RollbackStepsForward(results, i - 1) \o (IF hit THEN <<r.stepId>> ELSE <<>>)

RECURSIVE RollbackSteps(_, _)
RollbackSteps(results, i) ==
    IF i = 0 THEN <<>>
    ELSE LET r == results[i]
             k == StepIndex(workflow.steps, r.stepId)
             hit == /\ r.status = "success"
                    /\ k # 0
                    /\ workflow.steps[k].rollbackScriptId # Null
         IN (IF hit THEN <<r.stepId>> ELSE <<>>) \o RollbackSteps(results, i - 1)

RollbackJob(e, stepId) ==
    [node |-> execs[e].nodeId, state |-> "pending", executionId |-> e,
     stepId |-> stepId, tag |-> "rollback"]

\* actions.js 253-323, one store transaction per call
performRollback(e) ==
    IF ~workflow.rollbackEnabled
    THEN UNCHANGED <<execs, jobs>>
    ELSE LET steps == RollbackSteps(execs[e].stepResults, Len(execs[e].stepResults))
         IN /\ jobs' = jobs \o [i \in 1..Len(steps) |-> RollbackJob(e, steps[i])]
            /\ execs' = [execs EXCEPT ![e] = [@ EXCEPT !.status = "rolled_back"]]

\* ------------------------------------------------------------ step results
StepResult(step, status) == [stepId |-> step.id, status |-> status, retryCount |-> 0]

\* execution.stepResults as the loop holds it in memory: the persisted list
\* plus the result pushed by handleStepResult and not yet written
MemResults(e) ==
    execs[e].stepResults \o
      (IF lp[e].res = Null THEN <<>>
       ELSE <<[stepId |-> lp[e].cur, status |-> lp[e].res, retryCount |-> 0]>>)

\* engine.js 546-562
NextStepId(step, status, cond) ==
    IF step.type = "condition" THEN (IF cond THEN step.onTrue ELSE step.onFalse)
    ELSE IF status = "success" THEN step.onSuccess
    ELSE step.onFailure

NeedsEscalation(step, status) ==
    /\ step.type # "condition"
    /\ status # "success"
    /\ step.onFailure = Null
    /\ workflow.escalationEnabled

\* handleStepResult (engine.js 525-571): the result is pushed, the next step
\* chosen, and escalation started if the failure has nowhere to go
Handled(l, step, status, cond) ==
    [l EXCEPT !.res = status,
              !.next = NextStepId(step, status, cond),
              !.pc = IF NeedsEscalation(step, status) THEN "escalate" ELSE "persist"]

\* ------------------------------------- EscalationManager.handleStepFailure
MaxAttemptsOf(step) ==
    IF step.maxAttempts = 0 THEN DefaultMaxAttempts ELSE step.maxAttempts

\* escalation.js 31-32: retryCount of the first recorded result of the step
RetryCountOf(results, stepId) ==
    LET hits == {i \in 1..Len(results) : results[i].stepId = stepId}
    IN IF hits = {} THEN 0 ELSE results[Min(hits)].retryCount

\* escalation.js 34-52
ShouldRetry(results, step) == RetryCountOf(results, step.id) < MaxAttemptsOf(step)

DefaultDelaySeconds == 60
MaxDelaySeconds == 3600

\* the delay of the retry decision (escalation.js 28, 39-48)
retryDelay(step, retryCount) ==
    LET baseDelay == IF step.delaySeconds = 0 THEN DefaultDelaySeconds
                     ELSE step.delaySeconds
        delay == CASE step.backoffType \in {Null, "exponential"} ->
                        baseDelay * 2 ^ retryCount
                   [] step.backoffType = "linear" -> baseDelay * (retryCount + 1)
                   [] OTHER -> baseDelay
    IN IF delay < MaxDelaySeconds THEN delay ELSE MaxDelaySeconds

\* ----------------------------------------------------------- executeStep
StepJob(e, step) ==
    [node |-> execs[e].nodeId, state |-> "pending", executionId |-> e,
     stepId |-> step.id, tag |-> "remediation"]

CancelDone(e) == canc.pc = "done" /\ canc.exec = e

\* executeStep up to its first await (engine.js 223-270): the timer is armed
\* and the step's work started; a condition step has no await of its own
StartAttempt(e, step, kind) ==
    LET l == [lp[e] EXCEPT !.tries = IF kind # "retry" THEN 1
                                     ELSE IF @ < MaxTries THEN @ + 1 ELSE MaxTries,
                           !.delay = 0,
                           !.late = IF CancelDone(e) THEN @ \cup {kind} ELSE @]
    IN CASE step.type = "script" ->
              /\ jobs' = Append(jobs, StepJob(e, step))
              /\ lp' = [lp EXCEPT ![e] = [l EXCEPT !.pc = "poll", !.job = Len(jobs) + 1]]
              /\ timers' = timers \cup {<<e, step.id>>}
         [] step.type \in {"webhook", "delay"} ->
              /\ lp' = [lp EXCEPT ![e] = [l EXCEPT !.pc = step.type]]
              /\ timers' = timers \cup {<<e, step.id>>}
              /\ UNCHANGED jobs
         [] OTHER ->
              /\ \E cond \in (IF Len(MemResults(e)) = 0 THEN {FALSE} ELSE BOOLEAN) :
                     lp' = [lp EXCEPT ![e] = Handled(l, step, "success", cond)]
              /\ UNCHANGED <<jobs, timers>>

\* ---------------------------------------------------------- executeWorkflow
CurStep(e) == workflow.steps[StepIndex(workflow.steps, lp[e].cur)]

\* loop head (engine.js 165-187): reload, stop if cancelled, find the step
LoopCheck(e) ==
    /\ lp[e].pc = "check"
    /\ IF execs[e].status = "cancelled"
       THEN /\ lp' = [lp EXCEPT ![e] = [@ EXCEPT !.pc = "stopped"]]
            /\ UNCHANGED <<jobs, timers>>
       ELSE IF StepIndex(workflow.steps, lp[e].cur) = 0
       THEN /\ lp' = [lp EXCEPT ![e] = [@ EXCEPT !.pc = "complete", !.final = "failed",
                                                 !.reason = "step not found"]]
            /\ UNCHANGED <<jobs, timers>>
       ELSE StartAttempt(e, CurStep(e), "step")
    /\ UNCHANGED <<call, schedVars, workflow, policy, budget, execs, alerts, quarantine, trig, canc, init, active>>

\* waitForJobCompletion sees a terminal job (engine.js 372-383, 347-354)
LoopPoll(e) ==
    /\ lp[e].pc = "poll"
    /\ jobs[lp[e].job].state \in {"complete", "error"}
    /\ lp' = [lp EXCEPT ![e] =
                Handled(@, CurStep(e),
                        IF jobs[lp[e].job].state = "complete" THEN "success" ELSE "failed",
                        FALSE)]
    /\ timers' = timers \ {<<e, lp[e].cur>>}
    /\ UNCHANGED <<call, schedVars, workflow, policy, budget, execs, jobs, alerts, quarantine, trig, canc, init,
                   active>>

\* sendWebhook answers (engine.js 411-417); it reports failure, never throws
LoopWebhook(e, ok) ==
    /\ lp[e].pc = "webhook"
    /\ lp' = [lp EXCEPT ![e] =
                Handled(@, CurStep(e), IF ok THEN "success" ELSE "failed", FALSE)]
    /\ timers' = timers \ {<<e, lp[e].cur>>}
    /\ UNCHANGED <<call, schedVars, workflow, policy, budget, execs, jobs, alerts, quarantine, trig, canc, init,
                   active>>

\* the work of the attempt the loop is waiting for: the polling of its job,
\* or its webhook request
WorkOf(l) == [step |-> l.cur, try |-> l.tries, job |-> IF l.pc = "poll" THEN l.job ELSE 0]

\* what the timeout leaves behind (engine.js 229-232, 267, 386-388): when
\* the step timer wins the race nothing stops the work, which goes on until
\* it ends by itself; when the poll's own deadline passes first, the work
\* has ended by throwing. The work left behind writes no document, and a
\* behaviour follows it only if budget.watch is set.
Abandoned(l) ==
    IF ~budget.watch THEN {l.stray}
    ELSE IF l.pc = "poll" THEN {l.stray \cup {WorkOf(l)}, l.stray}
    ELSE {l.stray \cup {WorkOf(l)}}

\* the attempt throws: the step timer fires, or the poll's own deadline passes
\* (engine.js 229-232, 386-388); executeStep's catch asks for a retry decision
\* (engine.js 286-301, 581-611)
LoopTimeout(e) ==
    /\ \/ lp[e].pc = "poll"
       \/ lp[e].pc \in {"webhook", "delay"} /\ <<e, lp[e].cur>> \in timers
    /\ \E left \in Abandoned(lp[e]) :
         lp' = [lp EXCEPT ![e] =
                  IF ShouldRetry(MemResults(e), CurStep(e))
                  THEN [@ EXCEPT !.pc = "backoff", !.stray = left,
                                 !.delay = retryDelay(CurStep(e),
                                              RetryCountOf(MemResults(e), lp[e].cur))]
                  ELSE Handled([@ EXCEPT !.stray = left], CurStep(e), "failed", FALSE)]
    /\ timers' = timers \ {<<e, lp[e].cur>>}
    /\ UNCHANGED <<call, schedVars, workflow, policy, budget, execs, jobs, alerts, quarantine, trig, canc, init,
                   active>>

\* the sleep of a delay step ends (engine.js 459-477)
LoopDelay(e) ==
    /\ lp[e].pc = "delay"
    /\ lp' = [lp EXCEPT ![e] = Handled(@, CurStep(e), "success", FALSE)]
    /\ timers' = timers \ {<<e, lp[e].cur>>}
    /\ UNCHANGED <<call, schedVars, workflow, policy, budget, execs, jobs, alerts, quarantine, trig, canc, init,
                   active>>

\* the work of an attempt that lost the race ends by itself: its poll sees a
\* terminal job or passes its own deadline (engine.js 372-392), its request
\* is answered, its sleep is over; the losing promise's outcome is dropped
\* (engine.js 267)
StrayEnds(e, w) ==
    /\ w \in lp[e].stray
    /\ lp' = [lp EXCEPT ![e] = [@ EXCEPT !.stray = @ \ {w}]]
    /\ UNCHANGED <<call, schedVars, workflow, policy, budget, execs, jobs, alerts, quarantine, trig, canc, init,
                   timers, active>>

\* the backoff sleep ends and the step is executed again (engine.js 596-603).
\* The executions of one step are counted up to MaxTries; a step whose
\* execution inserts a job document is not executed beyond that count.
LoopRetry(e) ==
    /\ lp[e].pc = "backoff"
    /\ lp[e].tries < MaxTries \/ CurStep(e).type # "script"
    /\ StartAttempt(e, CurStep(e), "retry")
    /\ UNCHANGED <<call, schedVars, workflow, policy, budget, execs, alerts, quarantine, trig, canc, init, active>>

\* updateOne of currentStep and stepResults, then the loop test
\* (engine.js 193-209)
LoopPersist(e) ==
    /\ lp[e].pc = "persist"
    /\ execs' = [execs EXCEPT ![e] = [@ EXCEPT !.currentStep = lp[e].next,
                                               !.stepResults = MemResults(e)]]
    /\ lp' = [lp EXCEPT ![e] =
                [@ EXCEPT !.cur = lp[e].next, !.next = Null, !.res = Null,
                          !.pc = IF lp[e].next # Null THEN "check" ELSE "complete",
                          !.final = IF lp[e].next # Null THEN Null ELSE "success"]]
    /\ UNCHANGED <<call, schedVars, workflow, policy, budget, jobs, alerts, quarantine, trig, canc, init, timers,
                   active>>

\* completeExecution called by the loop (engine.js 209, 212)
LoopComplete(e) ==
    /\ lp[e].pc = "complete"
    /\ CompleteWrite(e, lp[e].final, lp[e].reason)
    /\ lp' = [lp EXCEPT ![e] =
                [@ EXCEPT !.pc = IF WantsRollback(lp[e].final) THEN "rollback" ELSE "done"]]
    /\ UNCHANGED <<call, schedVars, workflow, policy, budget, jobs, alerts, quarantine, trig, canc, init>>

LoopRollback(e) ==
    /\ lp[e].pc = "rollback"
    /\ performRollback(e)
    /\ lp' = [lp EXCEPT ![e] = [@ EXCEPT !.pc = "done"]]
    /\ UNCHANGED <<call, schedVars, workflow, policy, budget, alerts, quarantine, trig, canc, init, timers, active>>

\* --------------------------------------------------- EscalationManager
\* sendAdminAlert (escalation.js 239-281): the alert document is inserted and
\* an admin_alert entry pushed on the execution
AlertDoc(e, reason) == [executionId |-> e, reason |-> reason]

PushAlert(e, type, tier) ==
    [execs EXCEPT ![e] = [@ EXCEPT !.alerts = Append(@, [type |-> type, tier |-> tier])]]

sendAdminAlert(e, reason) ==
    /\ alerts' = Append(alerts, AlertDoc(e, reason))
    /\ execs' = PushAlert(e, "admin_alert", 0)

EscalationJob(e) ==
    [node |-> execs[e].nodeId, state |-> "pending", executionId |-> e,
     stepId |-> Null, tag |-> "escalation"]

\* escalate up to the tier loop (escalation.js 70-79): no policy id or no
\* policy document sends the alert; a policy without a tiers array makes
\* policy.tiers.length raise, which escalate's catch turns into a failure
EscLoad(e) ==
    /\ lp[e].pc = "escalate"
    /\ IF workflow.escalationPolicyId = Null \/ ~policy.present
       THEN /\ sendAdminAlert(e, "No escalation policy")
            /\ lp' = [lp EXCEPT ![e] = [@ EXCEPT !.pc = "persist", !.escRet = "no policy"]]
       ELSE IF ~policy.hasTiers
       THEN /\ lp' = [lp EXCEPT ![e] = [@ EXCEPT !.pc = "persist", !.escRet = "error"]]
            /\ UNCHANGED <<execs, alerts>>
       ELSE /\ lp' = [lp EXCEPT ![e] = [@ EXCEPT !.pc = "tier", !.tier = 1]]
            /\ UNCHANGED <<execs, alerts>>
    /\ UNCHANGED <<call, schedVars, workflow, policy, budget, jobs, quarantine, trig, canc, init, timers,
                   active>>

\* executeTier (escalation.js 148-174) and the tiers it dispatches to
TierSucceeds(type, ok) ==
    CASE type = "runScript" -> TRUE
      [] type = "noScript" -> FALSE
      [] type = "webhook" -> ok
      [] type = "email" -> FALSE
      [] type = "quarantine" -> TRUE
      [] type = "customAction" -> FALSE
      [] OTHER -> FALSE

\* quarantineNode (actions.js 185-212)
QuarantineDoc(node) == [nodeId |-> node, active |-> TRUE]

CancelPendingOn(node) ==
    [j \in 1..Len(jobs) |->
       IF jobs[j].node = node /\ jobs[j].state = "pending"
       THEN [jobs[j] EXCEPT !.state = "cancelled"] ELSE jobs[j]]

TierEffect(e, type) ==
    CASE type = "runScript" ->
           /\ jobs' = Append(jobs, EscalationJob(e))
           /\ UNCHANGED quarantine
      [] type = "quarantine" ->
           /\ quarantine' = Append(quarantine, QuarantineDoc(execs[e].nodeId))
           /\ jobs' = CancelPendingOn(execs[e].nodeId)
      [] OTHER -> UNCHANGED <<jobs, quarantine>>

\* the tier loop without its return on success
AfterTierContinues(l, i, success) ==
    [l EXCEPT !.tier = i + 1, !.tierLog = Append(@, [tier |-> i, ok |-> success])]

\* what escalate does with the outcome of a tier (escalation.js 85-106)
AfterTier(l, i, success) ==
    IF success THEN [l EXCEPT !.pc = "persist", !.escRet = "success",
                              !.tierLog = Append(@, [tier |-> i, ok |-> TRUE])]
    ELSE [l EXCEPT !.tier = i + 1, !.tierLog = Append(@, [tier |-> i, ok |-> FALSE])]

\* one turn of the tier loop (escalation.js 79-113)
EscTier(e, ok) ==
    /\ lp[e].pc = "tier"
    /\ LET i == lp[e].tier IN
       IF i > Len(policy.tiers)
       THEN /\ sendAdminAlert(e, "All escalation tiers failed")
            /\ lp' = [lp EXCEPT ![e] = [@ EXCEPT !.pc = "persist", !.escRet = "all failed"]]
            /\ UNCHANGED <<jobs, quarantine>>
       ELSE IF policy.tiers[i] = "null"
       THEN /\ lp' = [lp EXCEPT ![e] = [@ EXCEPT !.pc = "persist", !.escRet = "error"]]
            /\ UNCHANGED <<execs, alerts, jobs, quarantine>>
       ELSE LET success == TierSucceeds(policy.tiers[i], ok) IN
            /\ TierEffect(e, policy.tiers[i])
            /\ lp' = [lp EXCEPT ![e] = AfterTier(@, i, success)]
            /\ execs' = IF success THEN PushAlert(e, "escalation", i) ELSE execs
            /\ UNCHANGED alerts
    /\ UNCHANGED <<call, schedVars, workflow, policy, budget, trig, canc, init, timers, active>>

\* -------------------------------------------------------- cancelExecution
\* invocation, findOne of the execution and the status test (engine.js 689-700)
CancelCall(e) ==
    /\ canc.pc \in {"idle", "done", "refused", "dead"}
    /\ canc.used < budget.cancels
    /\ init.pc = "idle"
    /\ canc' = [pc |-> IF execs[e].status = "running" THEN "write" ELSE "refused",
                exec |-> e, used |-> canc.used + 1]
    /\ UNCHANGED <<call, schedVars, workflow, policy, budget, execs, jobs, alerts, quarantine, trig, lp,
                   init, timers, active>>

\* completeExecution(execution, 'cancelled', ...) (engine.js 703)
CancelWrite ==
    /\ canc.pc = "write"
    /\ CompleteWrite(canc.exec, "cancelled", "Cancelled by user")
    /\ canc' = [canc EXCEPT !.pc = "jobs"]
    /\ UNCHANGED <<call, schedVars, workflow, policy, budget, jobs, alerts, quarantine, trig, lp, init>>

\* an updateMany whose filter leaves out state: 'pending'
CancelEveryJobOf(exec) ==
    [j \in 1..Len(jobs) |->
       IF jobs[j].executionId = exec
       THEN [jobs[j] EXCEPT !.state = "cancelled"] ELSE jobs[j]]

\* the filter and update of engine.js 706-718
CancelPendingOf(exec) ==
    [j \in 1..Len(jobs) |->
       IF jobs[j].executionId = exec /\ jobs[j].state = "pending"
       THEN [jobs[j] EXCEPT !.state = "cancelled"] ELSE jobs[j]]

\* updateMany of the execution's pending jobs (engine.js 706-722)
CancelJobs ==
    /\ canc.pc = "jobs"
    /\ jobs' = CancelPendingOf(canc.exec)
    /\ canc' = [canc EXCEPT !.pc = "done"]
    /\ UNCHANGED <<call, schedVars, workflow, policy, budget, execs, alerts, quarantine, trig, lp, init,
                   timers, active>>

\* ------------------------------------------------------- restart, initialize
\* The process stops: every task in flight is gone and the in-memory maps are
\* empty in the new process.  initialize() then reads the running executions
\* (engine.js 49-52); the engine serves no call until it has finished.
RECURSIVE Sorted(_)
Sorted(S) == IF S = {} THEN <<>> ELSE <<Min(S)>> \o Sorted(S \ {Min(S)})

Restart ==
    /\ init.pc = "idle"
    /\ init.restarts < budget.restarts
    /\ Len(execs) > 0
    /\ LET running == {e \in ExecDocs : execs[e].status = "running"} IN
       init' = [pc |-> IF running = {} THEN "idle" ELSE "complete",
                queue |-> Sorted(running), restarts |-> init.restarts + 1,
                interrupted |-> init.interrupted \cup running]
    /\ lp' = [e \in ExecIds |->
                IF lp[e].pc \in {"none", "done", "stopped"} THEN [lp[e] EXCEPT !.stray = {}]
                ELSE [lp[e] EXCEPT !.pc = "dead", !.stray = {}]]
    /\ trig' = [c \in Calls |->
                  IF trig[c].pc \in {"lookup", "insert"}
                  THEN [trig[c] EXCEPT !.pc = "dead"] ELSE trig[c]]
    /\ canc' = IF canc.pc \in {"write", "jobs"} THEN [canc EXCEPT !.pc = "dead"] ELSE canc
    /\ timers' = {}
    /\ active' = {}
    /\ UNCHANGED <<call, schedVars, workflow, policy, budget, execs, jobs, alerts, quarantine>>

InitPop == [init EXCEPT !.queue = Tail(@),
                        !.pc = IF Len(init.queue) = 1 THEN "idle" ELSE "complete"]

\* initialize() that walks the running executions without completing them
InitCompleteSkips ==
    /\ init.pc = "complete"
    /\ init' = InitPop
    /\ UNCHANGED <<call, schedVars, workflow, policy, budget, execs, jobs, alerts, quarantine, trig, canc, lp,
                   timers, active>>

\* completeExecution(execution, 'failed', 'Engine restart - execution
\* interrupted') for the next execution found running (engine.js 56-59)
InitComplete ==
    /\ init.pc = "complete"
    /\ CompleteWrite(Head(init.queue), "failed", "interrupted")
    /\ init' = IF WantsRollback("failed") THEN [init EXCEPT !.pc = "rollback"] ELSE InitPop
    /\ UNCHANGED <<call, schedVars, workflow, policy, budget, jobs, alerts, quarantine, trig, canc, lp>>

InitRollback ==
    /\ init.pc = "rollback"
    /\ performRollback(Head(init.queue))
    /\ init' = InitPop
    /\ UNCHANGED <<call, schedVars, workflow, policy, budget, alerts, quarantine, trig, canc, lp, timers,
                   active>>

\* ------------------------------------------- the agents' side of a job
JobRun(j) ==
    /\ jobs[j].state = "pending"
    /\ jobs' = [jobs EXCEPT ![j] = [@ EXCEPT !.state = "running"]]
    /\ UNCHANGED <<call, schedVars, workflow, policy, budget, execs, alerts, quarantine, trig, canc, lp, init,
                   timers, active>>

JobFinish(j, ok) ==
    /\ jobs[j].state = "running"
    /\ jobs' = [jobs EXCEPT ![j] = [@ EXCEPT !.state = IF ok THEN "complete" ELSE "error"]]
    /\ UNCHANGED <<call, schedVars, workflow, policy, budget, execs, alerts, quarantine, trig, canc, lp, init,
                   timers, active>>

\* ============================================================ scheduler
\* Times are small integers from 1; 0 stands for an absent (falsy) value of
\* lastRun, of a configured limit and of a Date.
SchedIds == {"s1", "s2"}
Firings == 1..MaxFirings

\* schedule.concurrency
Concurrency(perNode, perMesh, global) ==
    [maxPerNode |-> perNode, maxPerMesh |-> perMesh, maxGlobal |-> global]

\* a cron expression is the period of its fire instants: it fires at instant
\* 1 and then once every period; 0 is an expression with no fire instant left
EveryInstant == 1
EveryOther == 2
\* fires at instant 1 and not again before the clock stops
Sparse == MaxTime + 1

\* a schedule_v2 document (routes/schedules.js 50-75)
Schedule(nodes, meshes, cc, wins, prio, missed, deps) ==
    [nodes |-> nodes, meshes |-> meshes, concurrency |-> cc,
     maintenanceWindowIds |-> wins, priority |-> prio, missedJobPolicy |-> missed,
     dependsOn |-> deps, lastRun |-> 0, runCount |-> 0,
     cronExpression |-> EveryInstant, enabled |-> TRUE, nextRun |-> 0]

\* the cron expression fires at instant t
cronMatches(expr, t) == expr # 0 /\ t >= 1 /\ (t - 1) % expr = 0

\* cron.next() called at instant now on a job that is not running its
\* callback: the first fire instant after now, 0 (null) when there is none
cronNext(expr, now) ==
    IF expr = 0 THEN 0
    ELSE IF now < 1 THEN 1
    ELSE (((now - 1) \div expr) + 1) * expr + 1

\* a maintenance_window document; fires are the instants its cron expression
\* fires at, duration is in clock units
MaintenanceWindow(id, fires, duration, enabled, allowed) ==
    [id |-> id, fires |-> fires, duration |-> duration, enabled |-> enabled,
     allowedPriorities |-> allowed]

\* what cron.previous() of a Cron built a moment ago gives, by library build:
\* "never" - the previous run of this job object, which never ran: null;
\* "throws" - the build has no such method: TypeError;
\* "pattern" - the latest instant of the expression at or before now
CronBuilds == {"never", "throws", "pattern"}

Max(S) == CHOOSE x \in S : \A y \in S : x >= y

cronPrevious(window, now, lib) ==
    LET past == {t \in window.fires : t <= now}
    IN IF lib = "pattern" /\ past # {} THEN Max(past) ELSE 0

\* isInMaintenanceWindow (maintenance-windows.js 88-112); err: the cron
\* expression or the timezone lookup raises
isInMaintenanceWindow(window, timestamp, now, lib, err) ==
    IF err \/ lib = "throws" THEN FALSE
    ELSE LET checkTime == IF timestamp # 0 THEN timestamp ELSE now
             prevRunTime == cronPrevious(window, now, lib)
         IN IF prevRunTime = 0 THEN FALSE
            ELSE checkTime >= prevRunTime /\ checkTime <= prevRunTime + window.duration

\* getMaintenanceWindows (maintenance-windows.js 68-80): the stored windows
\* with one of the ids, in store order; [] when the lookup raises
getMaintenanceWindows(windowIds, stored, err) ==
    IF err THEN <<>>
    ELSE SelectSeq(stored, LAMBDA w : \E i \in 1..Len(windowIds) : windowIds[i] = w.id)

\* canJobRun (maintenance-windows.js 25-61): allowed, and the window that
\* decided
canJobRun(schedule, timestamp, now, e, err) ==
    IF schedule.maintenanceWindowIds = <<>> THEN [allowed |-> TRUE, window |-> Null]
    ELSE LET windows == getMaintenanceWindows(schedule.maintenanceWindowIds, e.windows,
                                              err = "find")
             hits == {i \in 1..Len(windows) :
                        /\ windows[i].enabled
                        /\ isInMaintenanceWindow(windows[i], timestamp, now, e.cronLib,
                                                 err = "cron")}
         IN IF hits = {} THEN [allowed |-> TRUE, window |-> Null]
            ELSE LET w == windows[Min(hits)]
                 IN [allowed |-> schedule.priority \in w.allowedPriorities,
                     window |-> w.id]

\* jobs in state pending or running (index.js 299-302)
RunningJobs(js) == {j \in 1..Len(js) : js[j].state \in {"pending", "running"}}

\* the counts checkConcurrencyLimits compares: jobs on the node, jobs on
\* connected nodes of the node's mesh, all jobs
JobCounts(nodeId, js, agents) ==
    [node |-> Cardinality({j \in RunningJobs(js) : js[j].node = nodeId}),
     mesh |-> Cardinality({j \in RunningJobs(js) :
                             /\ agents[nodeId] # Null
                             /\ agents[js[j].node] = agents[nodeId]}),
     all  |-> Cardinality(RunningJobs(js))]

\* config.maxConcurrentJobs || 50
DefaultMaxConcurrent == 50
MaxConcurrent(e) ==
    IF e.maxConcurrentJobs # 0 THEN e.maxConcurrentJobs ELSE DefaultMaxConcurrent

\* checkConcurrencyLimits admitting a job when a count equals its limit
checkConcurrencyLimitsAtLimit(schedule, nodeId, js, agents, e, err) ==
    IF err THEN TRUE
    ELSE LET n == JobCounts(nodeId, js, agents)
             cc == schedule.concurrency
         IN ~ \/ cc.maxPerNode # 0 /\ n.node > cc.maxPerNode
              \/ cc.maxPerMesh # 0 /\ agents[nodeId] # Null /\ n.mesh > cc.maxPerMesh
              \/ cc.maxGlobal # 0 /\ n.all > cc.maxGlobal
              \/ n.all > MaxConcurrent(e)

\* checkConcurrencyLimits refusing when the lookup raises
checkConcurrencyLimitsFailClosed(schedule, nodeId, js, agents, e, err) ==
    IF err THEN FALSE
    ELSE LET n == JobCounts(nodeId, js, agents)
             cc == schedule.concurrency
         IN ~ \/ cc.maxPerNode # 0 /\ n.node >= cc.maxPerNode
              \/ cc.maxPerMesh # 0 /\ agents[nodeId] # Null /\ n.mesh >= cc.maxPerMesh
              \/ cc.maxGlobal # 0 /\ n.all >= cc.maxGlobal
              \/ n.all >= MaxConcurrent(e)

\* checkConcurrencyLimits without the system-wide ceiling
checkConcurrencyLimitsNoCeiling(schedule, nodeId, js, agents, e, err) ==
    IF err THEN TRUE
    ELSE LET n == JobCounts(nodeId, js, agents)
             cc == schedule.concurrency
         IN ~ \/ cc.maxPerNode # 0 /\ n.node >= cc.maxPerNode
              \/ cc.maxPerMesh # 0 /\ agents[nodeId] # Null /\ n.mesh >= cc.maxPerMesh
              \/ cc.maxGlobal # 0 /\ n.all >= cc.maxGlobal

\* checkConcurrencyLimits (index.js 297-344); err: the job lookup raises
checkConcurrencyLimits(schedule, nodeId, js, agents, e, err) ==
    IF err THEN TRUE
    ELSE LET n == JobCounts(nodeId, js, agents)
             cc == schedule.concurrency
         IN ~ \/ cc.maxPerNode # 0 /\ n.node >= cc.maxPerNode
              \/ cc.maxPerMesh # 0 /\ agents[nodeId] # Null /\ n.mesh >= cc.maxPerMesh
              \/ cc.maxGlobal # 0 /\ n.all >= cc.maxGlobal
              \/ n.all >= MaxConcurrent(e)

\* getTargetNodes (index.js 226-248): the connected nodes among
\* schedule.nodes, then the connected nodes of schedule.meshes not yet listed
NodeOrder == <<"n1", "n2">>
getTargetNodes(schedule, agents) ==
    LET listed == SelectSeq(schedule.nodes, LAMBDA n : agents[n] # Null)
        inList(n) == \E i \in 1..Len(listed) : listed[i] = n
    IN listed \o SelectSeq(NodeOrder, LAMBDA n : /\ agents[n] # Null
                                                 /\ agents[n] \in schedule.meshes
                                                 /\ ~inList(n))

\* getPriorityValue (index.js 369-377): priorities[priority] || 2
getPriorityValue(priority) ==
    LET v == CASE priority = "critical" -> 0 [] priority = "high" -> 1
               [] priority = "normal" -> 2 [] priority = "low" -> 3 [] OTHER -> 0
    IN IF v # 0 THEN v ELSE 2

\* jobQueue.push, then the stable sort by priority (index.js 179-188)
queueScheduleForLater(queue, sid, priority) ==
    LET entry == [scheduleId |-> sid, priority |-> getPriorityValue(priority) + 1]
        before == SelectSeq(queue, LAMBDA q : q.priority <= entry.priority)
        after == SelectSeq(queue, LAMBDA q : q.priority > entry.priority)
    IN before \o <<entry>> \o after

\* ----------------------------------------------------- scheduler actions
\* One action is one store operation with the synchronous code after it.
\* A firing works on the schedule object its caller handed it (doc): the
\* object setupCronJob was called with, or a document just read.  seen
\* records the lastRun that was stored for the schedule when the firing
\* started.
NoSchedule ==
    [Schedule(<<>>, {}, Concurrency(0, 0, 0), <<>>, Null, Null, <<>>)
       EXCEPT !.cronExpression = 0, !.enabled = FALSE]

IdleFiring == [pc |-> "idle", sid |-> Null, doc |-> NoSchedule, ts |-> 0, dep |-> 0,
               next |-> 0, seen |-> 0, out |-> Null, window |-> Null, maintErr |-> "none",
               depErr |-> FALSE]
NewTask(sid, node, f) ==
    [pc |-> "timer", sid |-> sid, node |-> node, firing |-> f, err |-> FALSE,
     stale |-> FALSE, over |-> FALSE]

\* the job document of createJobForSchedule (index.js 264-281)
ScheduledJob(node) ==
    [node |-> node, state |-> "pending", executionId |-> 0, stepId |-> Null,
     tag |-> "scheduled"]

\* the schedule object a firing works on
ScheduleOf(f) == fir[f].doc

\* a schedule object as its holder sees it: the bookkeeping fields runCount
\* and nextRun, which no holder reads, are left at their defaults
Held(schedule) == [schedule EXCEPT !.runCount = 0, !.nextRun = 0]

\* new Cron(schedule.cronExpression, {paused: !schedule.enabled}, callback)
\* built at instant now (index.js 77-86): the callback holds the schedule
\* object; fired is the latest instant at or before which the timer does not
\* fire any more
ArmedJob(schedule, now) ==
    [paused |-> ~schedule.enabled, schedule |-> Held(schedule), fired |-> now]

\* the timer of the Cron of schedule s is due: the job is armed, not paused,
\* its expression fires at this instant and it has not fired at it yet
CronDue(s) ==
    /\ s \in DOMAIN cronJobs
    /\ ~cronJobs[s].paused
    /\ cronMatches(cronJobs[s].schedule.cronExpression, clock)
    /\ cronJobs[s].fired < clock

\* const nextRun = cronJob.next() of an armed job (index.js 89, 163); 0 when
\* it is null and when the build has no such method (the TypeError ends the
\* caller in its catch block)
jobNext(job, now, lib) ==
    IF lib = "throws" THEN 0 ELSE cronNext(job.schedule.cronExpression, now)

\* updateOne $set nextRun, made only for a nextRun that is not null
\* (index.js 90-95, 164-169)
setNextRun(docs, s, nextRun) ==
    IF nextRun # 0 /\ s \in DOMAIN docs
    THEN [docs EXCEPT ![s] = [@ EXCEPT !.nextRun = nextRun]]
    ELSE docs

\* a firing starts: the cron callback on the schedule object of setupCronJob
\* (index.js 82-84), or the trigger route on a document just read
\* (routes/schedules.js 179-189); timestamp = Date.now() (index.js 111)
Fire(f, s, fresh) ==
    /\ fir[f].pc = "idle"
    /\ f <= env.firings
    /\ \A g \in Firings : g < f => fir[g].pc # "idle"
    /\ IF fresh THEN env.route /\ s \in DOMAIN schedules ELSE CronDue(s)
    /\ fir' = [fir EXCEPT ![f] =
                 [IdleFiring EXCEPT !.pc = "maint", !.sid = s, !.ts = clock,
                                    !.doc = IF fresh THEN Held(schedules[s])
                                            ELSE cronJobs[s].schedule,
                                    !.seen = IF s \in DOMAIN schedules
                                             THEN schedules[s].lastRun ELSE 0]]
    /\ cronJobs' = IF fresh THEN cronJobs
                   ELSE [cronJobs EXCEPT ![s] = [@ EXCEPT !.fired = clock]]
    /\ UNCHANGED <<env, schedules, wsagents, clock, tasks, jobQueue, checkInterval>>
    /\ UNCHANGED <<call, workflow, policy, budget, execs, jobs, alerts, quarantine, trig, canc,
                   lp, init, timers, active>>

\* getTargetNodes and one timer per node (index.js 142-149)
StartJobs(f) ==
    LET nodes == getTargetNodes(ScheduleOf(f), wsagents)
    IN tasks' = tasks \o [i \in 1..Len(nodes) |-> NewTask(fir[f].sid, nodes[i], f)]

\* a blocked firing queued whatever the missed-job policy
QueueAlways(queue, sid, schedule) ==
    queueScheduleForLater(queue, sid, schedule.priority)

\* the missed-job policy of a blocked firing (index.js 118-122)
QueueIfMissed(queue, sid, schedule) ==
    IF schedule.missedJobPolicy = "queue"
    THEN queueScheduleForLater(queue, sid, schedule.priority)
    ELSE queue

\* canJobRun and what follows it up to the next store operation
\* (index.js 114-149)
MaintCheck(f, err) ==
    /\ fir[f].pc = "maint"
    /\ ScheduleOf(f).maintenanceWindowIds = <<>> => err = "none"
    /\ LET schedule == ScheduleOf(f)
           maintenanceCheck == canJobRun(schedule, fir[f].ts, clock, env, err)
       IN IF ~maintenanceCheck.allowed
          THEN /\ fir' = [fir EXCEPT ![f] = [@ EXCEPT !.pc = "done", !.out = "blocked",
                                                      !.window = maintenanceCheck.window,
                                                      !.maintErr = err]]
               /\ jobQueue' = QueueIfMissed(jobQueue, fir[f].sid, schedule)
               /\ UNCHANGED tasks
          ELSE IF schedule.dependsOn # <<>>
          THEN /\ fir' = [fir EXCEPT ![f] = [@ EXCEPT !.pc = "deps", !.dep = 1,
                                                      !.window = maintenanceCheck.window,
                                                      !.maintErr = err]]
               /\ UNCHANGED <<tasks, jobQueue>>
          ELSE /\ fir' = [fir EXCEPT ![f] = [@ EXCEPT !.pc = "stats", !.out = "fired",
                                                      !.window = maintenanceCheck.window,
                                                      !.maintErr = err]]
               /\ StartJobs(f)
               /\ UNCHANGED jobQueue
    /\ UNCHANGED <<env, schedules, wsagents, clock, lifeVars>>
    /\ UNCHANGED <<call, workflow, policy, budget, execs, jobs, alerts, quarantine, trig, canc,
                   lp, init, timers, active>>

\* checkDependencies, one findOne per dependency (index.js 195-219), and
\* what follows it (index.js 129-149); err: the findOne raises
DepCheck(f, err) ==
    /\ fir[f].pc = "deps"
    /\ LET schedule == ScheduleOf(f)
           depId == schedule.dependsOn[fir[f].dep]
           missing == depId \notin DOMAIN schedules
           notReady ==
               \/ err
               \/ missing
               \/ ~missing /\ schedules[depId].lastRun = 0
               \/ ~missing /\ schedule.lastRun # 0
                           /\ schedules[depId].lastRun < schedule.lastRun
       IN IF notReady
          THEN /\ fir' = [fir EXCEPT ![f] = [@ EXCEPT !.pc = "done", !.out = "deps",
                                                      !.depErr = err]]
               /\ UNCHANGED tasks
          ELSE IF fir[f].dep < Len(schedule.dependsOn)
          THEN /\ fir' = [fir EXCEPT ![f] = [@ EXCEPT !.dep = @ + 1]]
               /\ UNCHANGED tasks
          ELSE /\ fir' = [fir EXCEPT ![f] = [@ EXCEPT !.pc = "stats", !.out = "fired"]]
               /\ StartJobs(f)
    /\ UNCHANGED <<env, schedules, wsagents, clock, jobQueue, lifeVars>>
    /\ UNCHANGED <<call, workflow, policy, budget, execs, jobs, alerts, quarantine, trig, canc,
                   lp, init, timers, active>>

\* updateOne: $set lastRun, $inc runCount (index.js 152-158), then the
\* cronJobs lookup and cronJob.next() (index.js 161-164)
FireStats(f) ==
    /\ fir[f].pc = "stats"
    /\ schedules' = IF fir[f].sid \in DOMAIN schedules
                    THEN [schedules EXCEPT ![fir[f].sid] =
                            [@ EXCEPT !.lastRun = fir[f].ts, !.runCount = @ + 1]]
                    ELSE schedules
    /\ LET nextRun == IF fir[f].sid \in DOMAIN cronJobs
                      THEN jobNext(cronJobs[fir[f].sid], clock, env.cronLib)
                      ELSE 0
       IN fir' = [fir EXCEPT ![f] = [@ EXCEPT !.pc = IF nextRun # 0 THEN "next"
                                                     ELSE "done",
                                              !.next = nextRun]]
    /\ UNCHANGED <<env, wsagents, clock, tasks, jobQueue, lifeVars>>
    /\ UNCHANGED <<call, workflow, policy, budget, execs, jobs, alerts, quarantine, trig, canc,
                   lp, init, timers, active>>

\* updateOne: $set nextRun (index.js 165-168)
FireNext(f) ==
    /\ fir[f].pc = "next"
    /\ schedules' = setNextRun(schedules, fir[f].sid, fir[f].next)
    /\ fir' = [fir EXCEPT ![f] = [@ EXCEPT !.pc = "done"]]
    /\ UNCHANGED <<env, wsagents, clock, tasks, jobQueue, lifeVars>>
    /\ UNCHANGED <<call, workflow, policy, budget, execs, jobs, alerts, quarantine, trig, canc,
                   lp, init, timers, active>>

\* the timer of a target node fires: createJobForSchedule up to the result
\* of checkConcurrencyLimits (index.js 255-262); err: the job lookup raises
TaskCheck(t, err) ==
    /\ tasks[t].pc = "timer"
    /\ LET canRun == checkConcurrencyLimits(ScheduleOf(tasks[t].firing), tasks[t].node,
                                            jobs, wsagents, env, err)
       IN tasks' = [tasks EXCEPT ![t] =
                      [@ EXCEPT !.pc = IF canRun THEN "insert" ELSE "denied",
                                !.err = err]]
    /\ UNCHANGED <<env, schedules, wsagents, clock, fir, jobQueue, lifeVars>>
    /\ UNCHANGED <<call, workflow, policy, budget, execs, jobs, alerts, quarantine, trig, canc,
                   lp, init, timers, active>>

\* some limit of the schedule is exceeded by the jobs js as seen from nodeId
Exceeded(schedule, nodeId, js, agents) ==
    LET n == JobCounts(nodeId, js, agents)
        cc == schedule.concurrency
    IN \/ cc.maxPerNode # 0 /\ n.node > cc.maxPerNode
       \/ cc.maxPerMesh # 0 /\ n.mesh > cc.maxPerMesh
       \/ cc.maxGlobal # 0 /\ n.all > cc.maxGlobal

\* insertOne of the job (index.js 283).  stale marks the calls whose lookup
\* result is older than this insert; over records whether a limit is
\* exceeded once the job is stored.
TaskInsert(t) ==
    /\ tasks[t].pc = "insert"
    /\ jobs' = Append(jobs, ScheduledJob(tasks[t].node))
    /\ tasks' = [u \in 1..Len(tasks) |->
                   IF u = t
                   THEN [tasks[u] EXCEPT !.pc = "done",
                                         !.over = Exceeded(ScheduleOf(tasks[t].firing),
                                                           tasks[t].node, jobs', wsagents)]
                   ELSE IF tasks[u].pc = "insert"
                   THEN [tasks[u] EXCEPT !.stale = TRUE]
                   ELSE tasks[u]]
    /\ UNCHANGED <<env, schedules, wsagents, clock, fir, jobQueue, lifeVars>>
    /\ UNCHANGED <<call, workflow, policy, budget, execs, alerts, quarantine, trig, canc,
                   lp, init, timers, active>>

\* the check interval fires (index.js 37): processJobQueue (index.js
\* 349-362); the head is taken, its schedule read, and handleScheduleTrigger
\* started on the document read
QueuePop(f) ==
    /\ checkInterval
    /\ jobQueue # <<>>
    /\ fir[f].pc = "idle"
    /\ f <= env.firings
    /\ \A g \in Firings : g < f => fir[g].pc # "idle"
    /\ jobQueue' = Tail(jobQueue)
    /\ LET s == Head(jobQueue).scheduleId
       IN fir' = IF s \in DOMAIN schedules
                 THEN [fir EXCEPT ![f] =
                         [IdleFiring EXCEPT !.pc = "maint", !.sid = s, !.ts = clock,
                                            !.doc = Held(schedules[s]),
                                            !.seen = schedules[s].lastRun]]
                 ELSE fir
    /\ UNCHANGED <<env, schedules, wsagents, clock, tasks, lifeVars>>
    /\ UNCHANGED <<call, workflow, policy, budget, execs, jobs, alerts, quarantine, trig, canc,
                   lp, init, timers, active>>

\* time passes
Tick ==
    /\ clock < env.lastTick
    /\ clock' = clock + 1
    /\ UNCHANGED <<env, schedules, wsagents, fir, tasks, jobQueue, lifeVars>>
    /\ UNCHANGED <<call, workflow, policy, budget, execs, jobs, alerts, quarantine, trig, canc,
                   lp, init, timers, active>>

\* an agent disconnects: its entry leaves wsagents
AgentDisconnect(n) ==
    /\ wsagents[n] # Null
    /\ Cardinality({m \in Nodes : env.agents[m] # Null /\ wsagents[m] = Null})
          < env.disconnects
    /\ wsagents' = [wsagents EXCEPT ![n] = Null]
    /\ UNCHANGED <<env, schedules, clock, fir, tasks, jobQueue, lifeVars>>
    /\ UNCHANGED <<call, workflow, policy, budget, execs, jobs, alerts, quarantine, trig, canc,
                   lp, init, timers, active>>

\* --------------------------------------------------- scheduler lifecycle
\* The administrative calls are one action each: a call's store operations
\* and its operation on the Cron are not interleaved with other tasks.
\* env.ops names the calls a behaviour makes.

\* a function without the argument s
Without(fn, s) == [t \in (DOMAIN fn) \ {s} |-> fn[t]]

\* pauseSchedule (index.js 459-475): enabled becomes false, the Cron of the
\* id, if there is one, is paused
pauseSchedule(s) ==
    /\ "pause" \in env.ops
    /\ s \in DOMAIN schedules
    /\ schedules' = [schedules EXCEPT ![s] = [@ EXCEPT !.enabled = FALSE]]
    /\ cronJobs' = IF s \in DOMAIN cronJobs
                   THEN [cronJobs EXCEPT ![s] = [@ EXCEPT !.paused = TRUE]]
                   ELSE cronJobs
    /\ UNCHANGED <<env, wsagents, clock, fir, tasks, jobQueue, checkInterval>>
    /\ UNCHANGED <<call, workflow, policy, budget, execs, jobs, alerts, quarantine, trig, canc,
                   lp, init, timers, active>>

\* resumeSchedule (index.js 482-498): enabled becomes true, the Cron of the
\* id, if there is one, is resumed
resumeSchedule(s) ==
    /\ "resume" \in env.ops
    /\ s \in DOMAIN schedules
    /\ schedules' = [schedules EXCEPT ![s] = [@ EXCEPT !.enabled = TRUE]]
    /\ cronJobs' = IF s \in DOMAIN cronJobs
                   THEN [cronJobs EXCEPT ![s] = [@ EXCEPT !.paused = FALSE]]
                   ELSE cronJobs
    /\ UNCHANGED <<env, wsagents, clock, fir, tasks, jobQueue, checkInterval>>
    /\ UNCHANGED <<call, workflow, policy, budget, execs, jobs, alerts, quarantine, trig, canc,
                   lp, init, timers, active>>

\* deleteSchedule (index.js 433-452): the Cron is stopped and forgotten, the
\* document deleted
deleteSchedule(s) ==
    /\ "delete" \in env.ops
    /\ s \in DOMAIN schedules
    /\ cronJobs' = IF s \in DOMAIN cronJobs THEN Without(cronJobs, s) ELSE cronJobs
    /\ schedules' = Without(schedules, s)
    /\ UNCHANGED <<env, wsagents, clock, fir, tasks, jobQueue, checkInterval>>
    /\ UNCHANGED <<call, workflow, policy, budget, execs, jobs, alerts, quarantine, trig, canc,
                   lp, init, timers, active>>

\* a cron expression the Cron constructor rejects by throwing
Unparseable == -1

\* setupCronJob (index.js 66-101) at instant now on the document schedule of
\* id s: the Cron of the id is replaced by a new one, nextRun written.  The
\* old Cron is stopped and forgotten first; if the constructor throws, the
\* catch block logs and nothing else is done.
setupCronJob(docs, jobs0, s, schedule, now, lib) ==
    LET cronJob == ArmedJob(schedule, now)
    IN IF schedule.cronExpression = Unparseable
       THEN [cronJobs |-> IF s \in DOMAIN jobs0 THEN Without(jobs0, s) ELSE jobs0,
             schedules |-> docs]
       ELSE [cronJobs |-> [t \in (DOMAIN jobs0) \cup {s} |->
                             IF t = s THEN cronJob ELSE jobs0[t]],
             schedules |-> setNextRun(docs, s, jobNext(cronJob, now, lib))]

\* addOrUpdateSchedule of a stored schedule with the fields it has (index.js
\* 386-403): the document is read again and setupCronJob called on it
updateSchedule(s) ==
    /\ "update" \in env.ops
    /\ s \in DOMAIN schedules
    /\ LET r == setupCronJob(schedules, cronJobs, s, schedules[s], clock, env.cronLib)
       IN /\ cronJobs' = r.cronJobs
          /\ schedules' = r.schedules
    /\ UNCHANGED <<env, wsagents, clock, fir, tasks, jobQueue, checkInterval>>
    /\ UNCHANGED <<call, workflow, policy, budget, execs, jobs, alerts, quarantine, trig, canc,
                   lp, init, timers, active>>

\* addOrUpdateSchedule with a cron expression (index.js 384-426): the
\* document of a stored id is updated, a document is inserted for a new id;
\* then the document is read and setupCronJob called on it
addOrUpdateSchedule(s, expr) ==
    /\ "edit" \in env.ops
    /\ LET docs == IF s \in DOMAIN schedules
                   THEN [schedules EXCEPT ![s] = [@ EXCEPT !.cronExpression = expr]]
                   ELSE schedules @@
                          (s :> [Schedule(<<"n1">>, {}, Concurrency(0, 0, 0), <<>>,
                                          "normal", "skip", <<>>)
                                   EXCEPT !.cronExpression = expr])
           r == setupCronJob(docs, cronJobs, s, docs[s], clock, env.cronLib)
       IN /\ cronJobs' = r.cronJobs
          /\ schedules' = r.schedules
    /\ UNCHANGED <<env, wsagents, clock, fir, tasks, jobQueue, checkInterval>>
    /\ UNCHANGED <<call, workflow, policy, budget, execs, jobs, alerts, quarantine, trig, canc,
                   lp, init, timers, active>>

\* shutdown (index.js 540-556): every Cron is stopped, the map cleared, the
\* check interval cleared
shutdown ==
    /\ "shutdown" \in env.ops
    /\ checkInterval
    /\ cronJobs' = <<>>
    /\ checkInterval' = FALSE
    /\ UNCHANGED <<env, schedules, wsagents, clock, fir, tasks, jobQueue>>
    /\ UNCHANGED <<call, workflow, policy, budget, execs, jobs, alerts, quarantine, trig, canc,
                   lp, init, timers, active>>

\* a handleScheduleTrigger call that has returned and whose timers have all
\* run is forgotten
Returned(f) ==
    /\ fir[f].pc = "done"
    /\ \A t \in 1..Len(tasks) :
          tasks[t].firing = f => tasks[t].pc \in {"done", "denied"}
    /\ fir' = [fir EXCEPT ![f] = IdleFiring]
    /\ tasks' = SelectSeq(tasks, LAMBDA t : t.firing # f)
    /\ UNCHANGED <<env, schedules, wsagents, clock, jobQueue, lifeVars>>
    /\ UNCHANGED <<call, workflow, policy, budget, execs, jobs, alerts, quarantine, trig, canc,
                   lp, init, timers, active>>

\* loadSchedules at instant now (index.js 45-60): setupCronJob for every
\* enabled schedule, in the order of ids
RECURSIVE loadSchedules(_, _, _, _, _)
loadSchedules(docs, jobs0, ids, now, lib) ==
    IF ids = <<>> THEN [cronJobs |-> jobs0, schedules |-> docs]
    ELSE LET s == Head(ids)
             r == IF s \in DOMAIN docs /\ docs[s].enabled
                  THEN setupCronJob(docs, jobs0, s, docs[s], now, lib)
                  ELSE [cronJobs |-> jobs0, schedules |-> docs]
         IN loadSchedules(r.schedules, r.cronJobs, Tail(ids), now, lib)

SchedOrder == <<"s1", "s2">>

\* initialize() of a scheduler that was shut down (index.js 29-40): the
\* enabled schedules are armed again and the check interval started
initialize ==
    /\ "restart" \in env.ops
    /\ ~checkInterval
    /\ LET r == loadSchedules(schedules, cronJobs, SchedOrder, clock, env.cronLib)
       IN /\ cronJobs' = r.cronJobs
          /\ schedules' = r.schedules
    /\ checkInterval' = TRUE
    /\ UNCHANGED <<env, wsagents, clock, fir, tasks, jobQueue>>
    /\ UNCHANGED <<call, workflow, policy, budget, execs, jobs, alerts, quarantine, trig, canc,
                   lp, init, timers, active>>

\* ------------------------------------------------------------ behaviours
\* a behaviour fixes the stored workflow and policy and how many calls are made
Scenario(wf, pol, calls, cancels, restarts) ==
    [workflow |-> wf, policy |-> pol,
     budget |-> [calls |-> calls, cancels |-> cancels, restarts |-> restarts,
                 watch |-> FALSE]]

Scenarios ==
    {Scenario(wf, NoPolicy, 1, MaxCancels, MaxRestarts) : wf \in Workflows}
      \cup {Scenario(wf, NoPolicy, MaxCalls, MaxCancels, MaxRestarts) :
               wf \in {WfNotify, WfCycle}}
      \cup {Scenario(WfEscalate, Policy(TRUE, TRUE, <<"email", "webhook">>),
                      1, MaxCancels, MaxRestarts)}
      \cup {Scenario(WfAlarm, pol, 1, 0, 0) : pol \in Policies}

\* no schedule is stored and the scheduler has nothing to do
SchedIdle ==
    /\ env = [windows |-> <<>>, maxConcurrentJobs |-> 0, cronLib |-> "never",
              agents |-> [n \in Nodes |-> Null],
              lastTick |-> 1, disconnects |-> 0, firings |-> 0, ops |-> {},
              route |-> FALSE]
    /\ schedules = <<>>
    /\ cronJobs = <<>>
    /\ checkInterval = FALSE
    /\ wsagents = [n \in Nodes |-> Null]
    /\ clock = 1
    /\ fir = [f \in Firings |-> IdleFiring]
    /\ tasks = <<>>
    /\ jobQueue = <<>>

\* the engine before any call, whatever the job documents stored
EngineIdle(sc) ==
    /\ call = NoCall
    /\ workflow = sc.workflow
    /\ policy = sc.policy
    /\ budget = sc.budget
    /\ execs = <<>>
    /\ trig = [c \in Calls |-> IdleCall]
    /\ lp = [e \in ExecIds |-> IdleLoop]
    /\ timers = {}
    /\ active = {}
    /\ alerts = <<>>
    /\ quarantine = <<>>
    /\ canc = IdleCancel
    /\ init = IdleInit

EngineInit(sc) == EngineIdle(sc) /\ jobs = <<>>

InitFor(sc) == SchedIdle /\ EngineInit(sc)

Init == \E sc \in Scenarios : InitFor(sc)

Next ==
    \/ \E c \in Calls, n \in Nodes : TriggerCall(c, n)
    \/ \E c \in Calls : TriggerLookup(c)
    \/ \E c \in Calls : TriggerInsert(c)
    \/ \E e \in ExecDocs : LoopCheck(e)
    \/ \E e \in ExecDocs : LoopPoll(e)
    \/ \E e \in ExecDocs, ok \in BOOLEAN : LoopWebhook(e, ok)
    \/ \E e \in ExecDocs : LoopTimeout(e)
    \/ \E e \in ExecDocs : LoopRetry(e)
    \/ \E e \in ExecDocs : LoopPersist(e)
    \/ \E e \in ExecDocs : LoopComplete(e)
    \/ \E e \in ExecDocs : LoopRollback(e)
    \/ \E e \in ExecDocs : EscLoad(e)
    \/ \E e \in ExecDocs, ok \in BOOLEAN : EscTier(e, ok)
    \/ \E e \in ExecDocs : CancelCall(e)
    \/ CancelWrite
    \/ CancelJobs
    \/ Restart
    \/ InitComplete
    \/ InitRollback
    \/ \E j \in 1..Len(jobs) : JobRun(j)
    \/ \E j \in 1..Len(jobs), ok \in BOOLEAN : JobFinish(j, ok)

Spec == Init /\ [][Next]_vars

\* ------------------------------------------- the steps of one execution
\* One call, no cancellation and no restart; the behaviour follows the work
\* that timed-out attempts leave behind.
\* a sleep, then a notification
WfPause ==
    Workflow(<<DelayStep("a", "b", Null), WebhookStep("b", Null, Null)>>,
             "a", FALSE, FALSE, Null)

Watched(sc) == [sc EXCEPT !.budget.watch = TRUE]

\* one script step with a retry policy
WfBackoff(backoffType, delaySeconds) ==
    Workflow(<<WithBackoff(ScriptStep("a", Null, Null, Null, 0), backoffType,
                           delaySeconds)>>, "a", FALSE, FALSE, Null)

BackoffTypes == {Null, "exponential", "linear", "fixed"}
DelaySeconds == {0, 60, 2000}

InitSteps ==
    \/ \E wf \in {WfCheckCleanup, WfNotify, WfPause} :
          InitFor(Watched(Scenario(wf, NoPolicy, 1, 0, 0)))
    \/ \E backoffType \in BackoffTypes, delaySeconds \in DelaySeconds :
          InitFor(Watched(Scenario(WfBackoff(backoffType, delaySeconds), NoPolicy, 1, 0, 0)))

NextSteps ==
    \/ \E c \in Calls, n \in Nodes : TriggerCall(c, n)
    \/ \E c \in Calls : TriggerLookup(c)
    \/ \E c \in Calls : TriggerInsert(c)
    \/ \E e \in ExecDocs : LoopCheck(e)
    \/ \E e \in ExecDocs : LoopPoll(e)
    \/ \E e \in ExecDocs, ok \in BOOLEAN : LoopWebhook(e, ok)
    \/ \E e \in ExecDocs : LoopDelay(e)
    \/ \E e \in ExecDocs : LoopTimeout(e)
    \/ \E e \in ExecDocs : \E w \in lp[e].stray : StrayEnds(e, w)
    \/ \E e \in ExecDocs : LoopRetry(e)
    \/ \E e \in ExecDocs : LoopPersist(e)
    \/ \E e \in ExecDocs : LoopComplete(e)
    \/ \E j \in 1..Len(jobs) : JobRun(j)
    \/ \E j \in 1..Len(jobs), ok \in BOOLEAN : JobFinish(j, ok)

SpecSteps == InitSteps /\ [][NextSteps]_vars

\* ------------------------------------------- executions that must end
\* One call of a workflow whose steps insert no job document; every store
\* operation of the loop completes, every timer fires and every piece of
\* work left behind ends.
\* one notification, nothing enabled
WfPing == Workflow(<<WebhookStep("a", Null, Null)>>, "a", FALSE, FALSE, Null)

\* a notification, a condition on its result, a second notification
WfBranch ==
    Workflow(<<WebhookStep("a", "b", "b"), ConditionStep("b", "c", Null),
               WebhookStep("c", Null, Null)>>, "a", FALSE, FALSE, Null)

InitTerm ==
    \E wf \in {WfPing, WfPause, WfBranch} : InitFor(Watched(Scenario(wf, NoPolicy, 1, 0, 0)))

NextTerm ==
    \/ \E c \in Calls, n \in Nodes : TriggerCall(c, n)
    \/ \E c \in Calls : TriggerLookup(c)
    \/ \E c \in Calls : TriggerInsert(c)
    \/ \E e \in ExecDocs : LoopCheck(e)
    \/ \E e \in ExecDocs, ok \in BOOLEAN : LoopWebhook(e, ok)
    \/ \E e \in ExecDocs : LoopDelay(e)
    \/ \E e \in ExecDocs : LoopTimeout(e)
    \/ \E e \in ExecDocs : \E w \in lp[e].stray : StrayEnds(e, w)
    \/ \E e \in ExecDocs : LoopRetry(e)
    \/ \E e \in ExecDocs : LoopPersist(e)
    \/ \E e \in ExecDocs : LoopComplete(e)

\* awaited store operations complete and timers fire; whether a request is
\* answered before the step timer fires is left open
FairTerm ==
    /\ \A c \in Calls : WF_vars(TriggerLookup(c)) /\ WF_vars(TriggerInsert(c))
    /\ \A e \in ExecIds :
          /\ WF_vars(e \in ExecDocs /\ LoopCheck(e))
          /\ WF_vars(e \in ExecDocs /\ LoopDelay(e))
          /\ WF_vars(e \in ExecDocs /\ LoopTimeout(e))
          /\ WF_vars(e \in ExecDocs /\ \E w \in lp[e].stray : StrayEnds(e, w))
          /\ WF_vars(e \in ExecDocs /\ LoopRetry(e))
          /\ WF_vars(e \in ExecDocs /\ LoopPersist(e))
          /\ WF_vars(e \in ExecDocs /\ LoopComplete(e))

SpecTerm == InitTerm /\ [][NextTerm]_vars /\ FairTerm

\* ------------------------------------------------ a node in quarantine
\* No cancellation, no restart and no step that times out; the workflow is
\* triggered again after an escalation has quarantined the node.
\* a script step and a notification, with escalation enabled
WfQuarantine ==
    Workflow(<<ScriptStep("a", "b", Null, Null, 1), WebhookStep("b", Null, Null)>>,
             "a", FALSE, TRUE, "p1")

InitQuarantine ==
    \E tiers \in {<<"quarantine">>, <<"email", "quarantine">>, <<"runScript">>} :
        InitFor(Scenario(WfQuarantine, Policy(TRUE, TRUE, tiers), MaxCalls, 0, 0))

NextQuarantine ==
    \/ \E c \in Calls, n \in Nodes : TriggerCall(c, n)
    \/ \E c \in Calls : TriggerLookup(c)
    \/ \E c \in Calls : TriggerInsert(c)
    \/ \E e \in ExecDocs : LoopCheck(e)
    \/ \E e \in ExecDocs : LoopPoll(e)
    \/ \E e \in ExecDocs, ok \in BOOLEAN : LoopWebhook(e, ok)
    \/ \E e \in ExecDocs : LoopPersist(e)
    \/ \E e \in ExecDocs : LoopComplete(e)
    \/ \E e \in ExecDocs : EscLoad(e)
    \/ \E e \in ExecDocs, ok \in BOOLEAN : EscTier(e, ok)
    \/ \E j \in 1..Len(jobs) : JobRun(j)
    \/ \E j \in 1..Len(jobs), ok \in BOOLEAN : JobFinish(j, ok)

SpecQuarantine == InitQuarantine /\ [][NextQuarantine]_vars

\* ------------------------------------------- validation of stored workflows
\* every workflow of up to MaxSteps script or condition steps whose transition
\* targets are absent, a step of the workflow, or the id of no step
StepNames == <<"a", "b", "c", "d">>
NoSuchStep == "zz"

FamilyIds(n) == {StepNames[i] : i \in 1..n}

\* what is chosen for one step: its type and its two transition targets
StepChoices(n) ==
    [type : {"script", "condition"},
     first : FamilyIds(n) \cup {Null, NoSuchStep},
     second : FamilyIds(n) \cup {Null, NoSuchStep}]

FamilyStep(id, c) ==
    IF c.type = "script" THEN ScriptStep(id, c.first, c.second, Null, 0)
    ELSE ConditionStep(id, c.first, c.second)

\* the workflow of n steps with the choices f, started at its first step
FamilyWorkflow(n, f) ==
    Workflow([i \in 1..n |-> FamilyStep(StepNames[i], f[i])], StepNames[1],
             FALSE, FALSE, Null)

\* a -> b -> c
WfChain ==
    Workflow(<<ScriptStep("a", "b", Null, Null, 0), ScriptStep("b", "c", Null, Null, 0),
               ScriptStep("c", Null, Null, Null, 0)>>, "a", FALSE, FALSE, Null)

\* a -> b -> c -> a through a failure and a condition transition
WfLoop ==
    Workflow(<<ScriptStep("a", Null, "b", Null, 0), ConditionStep("b", Null, "c"),
               ScriptStep("c", "a", Null, Null, 0)>>, "a", FALSE, FALSE, Null)

\* start step a alone, b <-> c not reachable from it
WfIsland ==
    Workflow(<<ScriptStep("a", Null, Null, Null, 0), ScriptStep("b", "c", Null, Null, 0),
               ScriptStep("c", "b", Null, Null, 0)>>, "a", FALSE, FALSE, Null)

\* findOne returns no workflow document (engine.js 81-88)
NoWorkflow == [Workflow(<<>>, Null, FALSE, FALSE, Null) EXCEPT !.present = FALSE]

\* workflows that are disabled, start elsewhere or start at no step
OtherWorkflows ==
    {WfChain, WfLoop, WfIsland, NoWorkflow,
     [WfChain EXCEPT !.enabled = FALSE], [WfLoop EXCEPT !.enabled = FALSE],
     [WfLoop EXCEPT !.startStep = "c"], [WfChain EXCEPT !.startStep = "b"],
     [WfChain EXCEPT !.startStep = NoSuchStep], [WfChain EXCEPT !.startStep = Null]}

InitValidate ==
    \/ \E n \in 1..MaxSteps : \E f \in [1..n -> StepChoices(n)] :
          InitFor(Scenario(FamilyWorkflow(n, f), NoPolicy, 1, 0, 0))
    \/ \E wf \in OtherWorkflows : InitFor(Scenario(wf, NoPolicy, 1, 0, 0))

NextValidate ==
    \/ \E c \in Calls, n \in Nodes : TriggerCall(c, n)
    \/ \E c \in Calls : TriggerLookup(c)
    \/ \E c \in Calls : TriggerInsert(c)

SpecValidate == InitValidate /\ [][NextValidate]_vars

\* ------------------------------------------------- scheduler behaviours
\* a behaviour fixes the stored schedules and windows, the configuration,
\* the cron library build, the agents connected at the start, how long
\* the clock runs, how many agents disconnect, the job documents stored
SchedScenario(scheds, windows, maxc, lib, agents, lastTick, disconnects, js, firings) ==
    [schedules |-> scheds, windows |-> windows, maxConcurrentJobs |-> maxc,
     cronLib |-> lib, agents |-> agents, lastTick |-> lastTick,
     disconnects |-> disconnects, jobs |-> js, firings |-> firings, route |-> FALSE]

\* the behaviours of a scenario in which the trigger route is called as well
\* (routes/schedules.js 179-189)
WithRoute(sc) == [sc EXCEPT !.route = TRUE]

\* a schedule stored disabled: initialize() arms no Cron for it
Disabled(schedule) == [schedule EXCEPT !.enabled = FALSE]

NoLimits == Concurrency(0, 0, 0)
BothInMesh == [n \in Nodes |-> "m1"]

\* windows in store order: w0 disabled over [1, 3]; w1 over [2, 3], critical
\* exempt; w2 over [1, 3], normal exempt
StoredWindows ==
    <<MaintenanceWindow("w0", {1}, 2, FALSE, {}),
      MaintenanceWindow("w1", {2}, 1, TRUE, {"critical"}),
      MaintenanceWindow("w2", {1}, 2, TRUE, {"normal"})>>

\* one schedule behind maintenance windows
MaintSchedule(wins, prio, missed) ==
    Schedule(<<"n1">>, {}, NoLimits, wins, prio, missed, <<>>)

MaintScenarios ==
    {SchedScenario("s1" :> MaintSchedule(wins, prio, missed), StoredWindows, 0,
                   "pattern", BothInMesh, MaxTime, 0, <<>>, MaxFirings) :
        wins \in {<<"w1">>, <<"w0">>, <<"w0", "w1", "w2">>},
        prio \in {"critical", "normal"}, missed \in {"queue", "skip"}}
      \cup {SchedScenario("s1" :> MaintSchedule(<<"w1">>, prio, "queue"), StoredWindows,
                          0, lib, BothInMesh, MaxTime, 0, <<>>, MaxFirings) :
               prio \in {"critical", "normal"}, lib \in CronBuilds}
      \cup {SchedScenario("s1" :> [MaintSchedule(<<"w1">>, "normal", "skip")
                                     EXCEPT !.concurrency = Concurrency(1, 0, 0)],
                          StoredWindows, 0, "pattern", BothInMesh, MaxTime, 0,
                          <<ScheduledJob("n1")>>, 1)}

\* s1 depends on other schedules; s2 has run at lastRun2 or never (0)
DepScenarios ==
    {WithRoute(SchedScenario(
        ("s1" :> Schedule(<<"n1">>, {}, NoLimits, <<>>, "normal", "skip", deps))
          @@ ("s2" :> [Schedule(<<"n2">>, {}, NoLimits, <<>>, "normal", "skip", <<>>)
                         EXCEPT !.lastRun = lastRun2]),
        <<>>, 0, "never", BothInMesh, MaxTime, 0, <<>>, MaxFirings)) :
        deps \in {<<"s2">>, <<"s2", "s2">>, <<"s2", "s3">>}, lastRun2 \in {0, 1}}

\* one schedule under limits, stored disabled and fired through the trigger
\* route: repeatedly for n1, or once for n1 and the connected nodes of mesh m1
LimitSets ==
    {Concurrency(1, 0, 0), Concurrency(2, 0, 0), Concurrency(0, 0, 1),
     Concurrency(0, 0, 2), Concurrency(1, 0, 2), NoLimits}

NodeSchedule(cc) ==
    Disabled(Schedule(<<"n1">>, {}, cc, <<>>, "normal", "skip", <<>>))
MeshSchedule(cc) ==
    Disabled(Schedule(<<"n1">>, {"m1"}, cc, <<>>, "normal", "skip", <<>>))

\* job documents stored before: none, or one job
StoredJobs ==
    {<<>>, <<ScheduledJob("n1")>>, <<[ScheduledJob("n2") EXCEPT !.state = "running"]>>,
     <<[ScheduledJob("n1") EXCEPT !.state = "complete"]>>}

LimitScenarios ==
    {WithRoute(SchedScenario("s1" :> NodeSchedule(cc), <<>>, 0, "never", BothInMesh, 1,
                             0, js, MaxFirings)) : cc \in LimitSets, js \in StoredJobs}
      \cup {WithRoute(SchedScenario("s1" :> NodeSchedule(NoLimits), <<>>, maxc, "never",
                                    BothInMesh, 1, 0, js, MaxFirings)) :
               maxc \in {1, 2}, js \in StoredJobs}
      \cup {WithRoute(SchedScenario("s1" :> MeshSchedule(Concurrency(0, perMesh, 0)),
                                    <<>>, 0, "never", agents, 1, MaxDisconnects, js, 1)) :
               perMesh \in {1, 2}, js \in StoredJobs,
               agents \in {BothInMesh, [BothInMesh EXCEPT !["n2"] = Null]}}

SchedScenarios == MaintScenarios \cup DepScenarios \cup LimitScenarios

\* the scheduler after initialize() at instant 0 (index.js 29-40): the
\* enabled schedules are armed, the check interval runs; ops are the
\* administrative calls the behaviour makes
SchedInit(sc, ops) ==
    /\ env = [windows |-> sc.windows, maxConcurrentJobs |-> sc.maxConcurrentJobs,
              cronLib |-> sc.cronLib, agents |-> sc.agents,
              lastTick |-> sc.lastTick, disconnects |-> sc.disconnects,
              firings |-> sc.firings, ops |-> ops, route |-> sc.route]
    /\ LET r == loadSchedules(sc.schedules, <<>>, SchedOrder, 0, sc.cronLib)
       IN /\ schedules = r.schedules
          /\ cronJobs = r.cronJobs
    /\ checkInterval = TRUE
    /\ wsagents = sc.agents
    /\ jobs = sc.jobs
    /\ clock = 1
    /\ fir = [f \in Firings |-> IdleFiring]
    /\ tasks = <<>>
    /\ jobQueue = <<>>

InitSched ==
    /\ EngineIdle(Scenario(NoWorkflow, NoPolicy, 0, 0, 0))
    /\ \E sc \in SchedScenarios : SchedInit(sc, {})

NextSched ==
    \/ \E f \in Firings, s \in SchedIds, fresh \in BOOLEAN : Fire(f, s, fresh)
    \/ \E f \in Firings, err \in {"none", "find", "cron"} : MaintCheck(f, err)
    \/ \E f \in Firings, err \in BOOLEAN : DepCheck(f, err)
    \/ \E f \in Firings : FireStats(f)
    \/ \E f \in Firings : FireNext(f)
    \/ \E t \in 1..Len(tasks), err \in BOOLEAN : TaskCheck(t, err)
    \/ \E t \in 1..Len(tasks) : TaskInsert(t)
    \/ \E f \in Firings : QueuePop(f)
    \/ Tick
    \/ \E n \in Nodes : AgentDisconnect(n)

SpecSched == InitSched /\ [][NextSched]_vars

\* ------------------------------------------- scheduler lifecycle behaviours
\* The timers of the scheduler: the Cron of each schedule, the check interval
\* and the timers of the job creations, under the administrative calls.  The
\* store is reliable here and the schedules have no dependencies.

\* a window that is open from instant 1 to the end of the behaviour, and one
\* that is open at instant 1 only; nobody is exempt
LongWindow == MaintenanceWindow("w4", {1}, MaxTime, TRUE, {})
ShortWindow == MaintenanceWindow("w5", {1}, 0, TRUE, {})

\* a schedule for one node whose blocked firings are queued
QueuedSchedule(node, win, prio, expr) ==
    [Schedule(<<node>>, {}, NoLimits, <<win>>, prio, "queue", <<>>)
       EXCEPT !.cronExpression = expr]

\* s1 of high priority behind the long window, s2 of low priority behind the
\* short one; s2 fires at instant 1 and not again
QueueScenario ==
    SchedScenario(("s1" :> QueuedSchedule("n1", "w4", "high", EveryInstant))
                    @@ ("s2" :> QueuedSchedule("n2", "w5", "low", Sparse)),
                  <<LongWindow, ShortWindow>>, 0, "pattern", BothInMesh, MaxTime, 0,
                  <<>>, MaxFirings)

\* s1 of the given priority and s2 of critical priority behind the same long
\* window; each fires at instant 1 and not again
RankScenario(prio) ==
    SchedScenario(("s1" :> QueuedSchedule("n1", "w4", prio, Sparse))
                    @@ ("s2" :> QueuedSchedule("n2", "w4", "critical", Sparse)),
                  <<LongWindow>>, 0, "pattern", BothInMesh, MaxTime, 0,
                  <<>>, MaxFirings)

\* one schedule for n1 that fires at every instant, by library build
PlainScenario(lib) ==
    SchedScenario("s1" :> Schedule(<<"n1">>, {}, NoLimits, <<>>, "normal", "skip", <<>>),
                  <<>>, 0, lib, BothInMesh, MaxTime, 0, <<>>, MaxFirings)

\* the administrative calls made in a behaviour
OpSets == {{"pause", "resume"}, {"update", "pause"}, {"delete"}, {"shutdown"},
           {"shutdown", "restart"}, {"edit"}}

\* the schedule of PlainScenario, stored with enabled false
PausedScenario(lib) ==
    [PlainScenario(lib) EXCEPT !.schedules = "s1" :> Disabled(@["s1"])]

InitLife ==
    /\ EngineIdle(Scenario(NoWorkflow, NoPolicy, 0, 0, 0))
    /\ \/ \E ops \in {{}, {"pause"}, {"delete"}} : SchedInit(QueueScenario, ops)
       \/ \E lib \in {"never", "throws"}, ops \in OpSets :
             SchedInit(PlainScenario(lib), ops)
       \/ \E lib \in {"never", "throws"} : SchedInit(PausedScenario(lib), {"resume"})
       \/ \E prio \in {"high", "normal", "low"} : SchedInit(RankScenario(prio), {})

NextLife ==
    \/ \E f \in Firings, s \in SchedIds : Fire(f, s, FALSE)
    \/ \E f \in Firings : MaintCheck(f, "none")
    \/ \E f \in Firings : FireStats(f)
    \/ \E f \in Firings : FireNext(f)
    \/ \E t \in 1..Len(tasks) : TaskCheck(t, FALSE)
    \/ \E t \in 1..Len(tasks) : TaskInsert(t)
    \/ \E f \in Firings : QueuePop(f)
    \/ \E f \in Firings : Returned(f)
    \/ Tick
    \/ \E s \in SchedIds : pauseSchedule(s)
    \/ \E s \in SchedIds : resumeSchedule(s)
    \/ \E s \in SchedIds : deleteSchedule(s)
    \/ \E s \in SchedIds : updateSchedule(s)
    \/ shutdown
    \/ initialize
    \/ \E s \in SchedIds, expr \in {EveryOther, Unparseable} : addOrUpdateSchedule(s, expr)

\* the check interval keeps firing until it is cleared, time passes, and
\* every store operation and every timer of a job creation completes
FairLife ==
    /\ WF_vars(\E f \in Firings : QueuePop(f))
    /\ WF_vars(Tick)
    /\ \A f \in Firings :
          /\ WF_vars(MaintCheck(f, "none"))
          /\ WF_vars(FireStats(f))
          /\ WF_vars(FireNext(f))
          /\ WF_vars(\E t \in 1..Len(tasks) : tasks[t].firing = f /\ TaskCheck(t, FALSE))
          /\ WF_vars(\E t \in 1..Len(tasks) : tasks[t].firing = f /\ TaskInsert(t))
          /\ WF_vars(Returned(f))

SpecLife == InitLife /\ [][NextLife]_vars /\ FairLife

\* ------------------------------------------------- calls without effects
\* getNextRuns (index.js 506-535) called at instant now: the timestamps of
\* the entries returned.  The Cron built for the preview has no callback and
\* never runs: each cron.next() of the loop starts from the current instant.
\* In a build without next() the first call raises and the catch block
\* returns [].
getNextRuns(docs, scheduleId, count, now, lib) ==
    IF scheduleId \notin DOMAIN docs THEN <<>>
    ELSE IF lib = "throws" THEN <<>>
    ELSE LET next == cronNext(docs[scheduleId].cronExpression, now)
         IN IF next = 0 THEN <<>> ELSE [i \in 1..count |-> next]

\* the cron expressions previewed
Expressions == {EveryInstant, EveryOther, Sparse}

\* one stored schedule, by cron expression and library build
PreviewScenario(expr, lib) ==
    [PlainScenario(lib) EXCEPT
       !.schedules = "s1" :> [@["s1"] EXCEPT !.cronExpression = expr]]

\* a getNextRuns call, for a stored or an unknown schedule id
GetNextRuns(s, count) ==
    /\ call = NoCall
    /\ call' = [fn |-> "getNextRuns", scheduleId |-> s, count |-> count, at |-> clock,
                result |-> getNextRuns(schedules, s, count, clock, env.cronLib)]
    /\ UNCHANGED <<schedVars, workflow, policy, budget, execs, jobs, alerts, quarantine,
                   trig, canc, lp, init, timers, active>>

InitPure ==
    /\ EngineIdle(Scenario(NoWorkflow, NoPolicy, 0, 0, 0))
    /\ \E expr \in Expressions, lib \in CronBuilds :
          SchedInit(PreviewScenario(expr, lib), {})

NextPure ==
    \/ \E s \in SchedIds, count \in 0..MaxCount : GetNextRuns(s, count)
    \/ Tick

SpecPure == InitPure /\ [][NextPure]_vars

\* ------------------------------------------------- ConditionEvaluator
\* JavaScript values are tagged records: t is the type, n the number (or the
\* truth value of a boolean as 0/1), s the string, f the own properties of an
\* object or the elements of an array by index
NoProps == [k \in {} |-> 0]
Num(n) == [t |-> "number", n |-> n, s |-> "", f |-> NoProps]
Str(s) == [t |-> "string", n |-> 0, s |-> s, f |-> NoProps]
Bool(b) == [t |-> "boolean", n |-> IF b THEN 1 ELSE 0, s |-> "", f |-> NoProps]
NaN == [t |-> "NaN", n |-> 0, s |-> "", f |-> NoProps]
JsNull == [t |-> "null", n |-> 0, s |-> "", f |-> NoProps]
Undefined == [t |-> "undefined", n |-> 0, s |-> "", f |-> NoProps]
Obj(f) == [t |-> "object", n |-> 0, s |-> "", f |-> f]
Arr(f) == [t |-> "array", n |-> 0, s |-> "", f |-> f]

\* the decimal numerals of the numbers the inputs use
Numerals == ("0" :> 0) @@ ("1" :> 1) @@ ("5" :> 5) @@ ("90" :> 90) @@ ("95" :> 95)
NumeralOf(n) == CHOOSE s \in DOMAIN Numerals : Numerals[s] = n

\* current[part] of a value that is neither null nor undefined
Prop(v, part) ==
    IF v.t \in {"object", "array"} /\ part \in DOMAIN v.f THEN v.f[part] ELSE Undefined

\* the loop of extractField (escalation.js 580-604) over the parts of the path
RECURSIVE Walk(_, _)
Walk(current, parts) ==
    IF parts = <<>> THEN current
    ELSE IF current.t \in {"null", "undefined"} THEN JsNull
    ELSE Walk(Prop(current, Head(parts)), Tail(parts))

\* extractField (escalation.js 577-605); the path is given by its parts, the
\* empty path being the empty or absent string
extractField(obj, path) == IF path = <<>> THEN obj ELSE Walk(obj, path)

parseFloat(s) == IF s \in DOMAIN Numerals THEN Num(Numerals[s]) ELSE NaN

\* ToNumber of a value that is not an array or object with a numeral inside
ToNumber(v) ==
    CASE v.t \in {"number", "boolean"} -> Num(v.n)
      [] v.t = "null" -> Num(0)
      [] v.t = "string" -> IF v.s = "" THEN Num(0) ELSE parseFloat(v.s)
      [] v.t = "array" /\ DOMAIN v.f = {} -> Num(0)
      [] OTHER -> NaN

isNaN(v) == ToNumber(v).t = "NaN"

\* String(v), for the values the inputs use
StringOf(v) ==
    CASE v.t = "number" -> NumeralOf(v.n)
      [] v.t = "string" -> v.s
      [] v.t = "boolean" -> IF v.n = 1 THEN "true" ELSE "false"
      [] v.t = "object" -> "[object Object]"
      [] v.t = "array" -> ""
      [] OTHER -> v.t

\* String.prototype.includes over the strings the inputs use
Includes(text, part) ==
    \/ part = ""
    \/ text = part
    \/ <<text, part>> \in {<<"95", "9">>, <<"95", "5">>, <<"90", "9">>, <<"90", "0">>,
                           <<"not-a-number", "not">>, <<"undefined", "fine">>}

\* a === b; two objects are never the same object here, one comes from the
\* condition and the other from the result
StrictEq(a, b) ==
    /\ a.t = b.t
    /\ a.t \notin {"NaN", "object", "array"}
    /\ a.n = b.n
    /\ a.s = b.s

\* a < b and a <= b for operands that are not both strings
Less(a, b) == ~isNaN(a) /\ ~isNaN(b) /\ ToNumber(a).n < ToNumber(b).n
LessEq(a, b) == ~isNaN(a) /\ ~isNaN(b) /\ ToNumber(a).n <= ToNumber(b).n

\* this.operators (escalation.js 368-380), without regex
Operators == {"eq", "ne", "gt", "gte", "lt", "lte", "contains", "notContains", "in", "notIn"}

opFunc(operator, a, b) ==
    CASE operator = "eq" -> StrictEq(a, b)
      [] operator = "ne" -> ~StrictEq(a, b)
      [] operator = "gt" -> Less(b, a)
      [] operator = "gte" -> LessEq(b, a)
      [] operator = "lt" -> Less(a, b)
      [] operator = "lte" -> LessEq(a, b)
      [] operator = "contains" -> Includes(StringOf(a), StringOf(b))
      [] operator = "notContains" -> ~Includes(StringOf(a), StringOf(b))
      [] operator = "in" -> b.t = "array" /\ \E k \in DOMAIN b.f : StrictEq(a, b.f[k])
      [] operator = "notIn" -> b.t = "array" /\ ~\E k \in DOMAIN b.f : StrictEq(a, b.f[k])

\* condition.operator || default
OperatorOf(condition, default) ==
    IF condition.operator = Null THEN default ELSE condition.operator

\* escalation.js 427-438
evaluateExitCode(condition, jobResult) ==
    LET exitCode == IF Prop(jobResult, "exitCode").t # "undefined"
                    THEN Prop(jobResult, "exitCode") ELSE JsNull
        operator == OperatorOf(condition, "eq")
    IN /\ exitCode.t # "null"
       /\ operator \in Operators
       /\ opFunc(operator, exitCode, condition.exitCode)

\* the truthiness of a value
Truthy(v) ==
    CASE v.t \in {"undefined", "null", "NaN"} -> FALSE
      [] v.t \in {"number", "boolean"} -> v.n # 0
      [] v.t = "string" -> v.s # ""
      [] OTHER -> TRUE

\* escalation.js 446-486 for the match types contains and notContains and
\* for an unknown one, case sensitive; includes on an output that is not a
\* string raises, which evaluate answers with false
evaluateOutputPattern(condition, jobResult) ==
    LET output == IF Truthy(Prop(jobResult, "output")) THEN Prop(jobResult, "output")
                  ELSE IF Truthy(Prop(jobResult, "stdout")) THEN Prop(jobResult, "stdout")
                  ELSE Str("")
    IN /\ output.t = "string"
       /\ CASE condition.matchType = "contains" ->
                 Includes(output.s, StringOf(condition.pattern))
            [] condition.matchType = "notContains" ->
                 ~Includes(output.s, StringOf(condition.pattern))
            [] OTHER -> FALSE

\* escalation.js 494-514
evaluateThreshold(condition, jobResult) ==
    LET extracted == extractField(jobResult, condition.field)
        actualValue == IF extracted.t = "string" THEN parseFloat(extracted.s) ELSE extracted
        operator == OperatorOf(condition, "gt")
    IN /\ ~isNaN(actualValue)
       /\ operator \in Operators
       /\ opFunc(operator, actualValue, condition.value)

\* JSON.parse of an output string: a numeral is a number, "null" is null,
\* any other string the inputs use is not JSON
ParsesAsJSON(s) == s \in DOMAIN Numerals \/ s = "null"
ParseJSON(s) == IF s = "null" THEN JsNull ELSE Num(Numerals[s])

\* the data a jsonPath condition is evaluated on (escalation.js 526-536)
JsonData(jobResult) ==
    LET output == Prop(jobResult, "output")
    IN IF output.t # "string" THEN jobResult
       ELSE IF ParsesAsJSON(output.s) THEN ParseJSON(output.s)
       ELSE Obj("output" :> output)

\* escalation.js 521-545
evaluateJsonPath(condition, jobResult) ==
    LET actualValue == extractField(JsonData(jobResult), condition.path)
        operator == OperatorOf(condition, "eq")
    IN /\ operator \in Operators
       /\ opFunc(operator, actualValue, condition.value)

\* condition records; an absent condition has no type
NoCondition == [type |-> Null]
ExitCodeCondition(exitCode, operator) ==
    [type |-> "exitCode", exitCode |-> exitCode, operator |-> operator]
OutputPatternCondition(pattern, matchType) ==
    [type |-> "outputPattern", pattern |-> pattern, matchType |-> matchType]
ThresholdCondition(field, operator, value) ==
    [type |-> "threshold", field |-> field, operator |-> operator, value |-> value]
JsonPathCondition(path, operator, value) ==
    [type |-> "jsonPath", path |-> path, operator |-> operator, value |-> value]
CompositeCondition(logic, conditions) ==
    [type |-> "composite", logic |-> logic, conditions |-> conditions]

\* evaluate (escalation.js 389-419) with evaluateComposite (escalation.js
\* 552-569); whatever is raised below is answered with false
RECURSIVE evaluate(_, _)
evaluate(condition, jobResult) ==
    CASE condition.type = "exitCode" -> evaluateExitCode(condition, jobResult)
      [] condition.type = "outputPattern" -> evaluateOutputPattern(condition, jobResult)
      [] condition.type = "threshold" -> evaluateThreshold(condition, jobResult)
      [] condition.type = "jsonPath" -> evaluateJsonPath(condition, jobResult)
      [] condition.type = "composite" ->
           LET conditions == condition.conditions IN
           CASE condition.logic = "and" ->
                  \A i \in 1..Len(conditions) : evaluate(conditions[i], jobResult)
             [] condition.logic = "or" ->
                  \E i \in 1..Len(conditions) : evaluate(conditions[i], jobResult)
             [] condition.logic = "not" ->
                  ~evaluate(IF conditions = <<>> THEN NoCondition ELSE conditions[1],
                            jobResult)
             [] OTHER -> FALSE
      [] OTHER -> FALSE

\* the inputs: step results with a diskUsage field of every kind, without
\* it, and with an output
FieldValues ==
    {Num(95), Num(5), Str("95"), Str("not-a-number"), JsNull, Bool(TRUE),
     Obj("pct" :> Num(95)), Obj("pct" :> Num(5))}

JobResults ==
    {Obj("diskUsage" :> v) : v \in FieldValues}
      \cup {Obj(("exitCode" :> Num(c)) @@ ("output" :> Str(s))) :
              c \in {0, 1}, s \in {"95", "not-a-number", "null"}}
      \cup {Obj("exitCode" :> Num(1))}

Paths == {<<"diskUsage">>, <<"diskUsage", "pct">>, <<"missing">>, <<"missing", "pct">>, <<>>}

\* the operand tried with each operator
Operand(operator) ==
    IF operator \in {"contains", "notContains"} THEN Str("9")
    ELSE IF operator \in {"in", "notIn"} THEN Arr(("0" :> Num(90)) @@ ("1" :> Num(95)))
    ELSE Num(90)

LeafConditions ==
    {ThresholdCondition(p, op, Operand(op)) : p \in Paths, op \in Operators \cup {Null, "bogus"}}
      \cup {JsonPathCondition(p, op, Operand(op)) :
              p \in Paths, op \in Operators \cup {Null, "bogus"}}
      \cup {ExitCodeCondition(Num(0), op) : op \in {Null, "ne", "bogus"}}
      \cup {OutputPatternCondition(Str("9"), m) : m \in {"contains", "notContains", "bogus"}}
      \cup {NoCondition, [type |-> "bogus"]}

Conditions ==
    LeafConditions
      \cup {CompositeCondition(logic, <<ThresholdCondition(<<"diskUsage">>, "gt", Num(90)),
                                        ExitCodeCondition(Num(0), Null)>>) :
              logic \in {"and", "or", "not", "bogus"}}
      \cup {CompositeCondition("not", <<>>)}

\* conditionEvaluator.evaluate called on a step result (engine.js 500-503)
Evaluate(condition, jobResult) ==
    /\ call = NoCall
    /\ call' = [fn |-> "evaluate", condition |-> condition, jobResult |-> jobResult,
                result |-> evaluate(condition, jobResult)]
    /\ UNCHANGED <<schedVars, workflow, policy, budget, execs, jobs, alerts, quarantine,
                   trig, canc, lp, init, timers, active>>

InitCond ==
    /\ SchedIdle
    /\ EngineInit(Scenario(NoWorkflow, NoPolicy, 0, 0, 0))

NextCond == \E condition \in Conditions, jobResult \in JobResults : Evaluate(condition, jobResult)

SpecCond == InitCond /\ [][NextCond]_vars

\* ================================================================ properties
Terminal == {"success", "failed", "cancelled", "rolled_back"}

\* C1: in every reachable state the store holds at most one execution with
\* status 'running' for a (workflowId, nodeId) pair.
C1_OneRunningPerPair ==
    \A n \in Nodes : Cardinality(RunningFor(WorkflowId, n)) <= 1

\* C2: a triggerWorkflow call whose lookup finds a running execution for the
\* pair returns one of the executions it found, inserts no record and starts no
\* loop: records and loops exist only for calls whose lookup found nothing.
C2_ExistingReturned ==
    /\ \A c \in Calls :
          trig[c].hadRunning # {} =>
             /\ trig[c].pc = "done"
             /\ trig[c].ret \in trig[c].hadRunning
             /\ ~trig[c].created
    /\ Len(execs) = Cardinality({c \in Calls : trig[c].created})
    /\ \A e \in ExecIds : lp[e].pc # "none" <=> e \in ExecDocs

C2_Witness ==
    \E c, d \in Calls :
        /\ trig[d].created
        /\ trig[c].hadRunning # {}
        /\ trig[c].pc = "done"
        /\ trig[c].ret = trig[d].ret

\* C3: once an execution's persisted status is success, cancelled or
\* rolled_back it never changes, and failed changes to rolled_back only.
C3_TerminalIsFinal ==
    [][\A e \in ExecDocs :
          execs[e].status \in Terminal =>
             \/ execs'[e].status = execs[e].status
             \/ execs[e].status = "failed" /\ execs'[e].status = "rolled_back"]_vars

\* C4: a step is executed once and re-executed at most maxAttempts times.
C4_RetriesBounded ==
    \A e \in ExecDocs :
        StepIndex(workflow.steps, lp[e].cur) # 0 =>
           lp[e].tries <= 1 + MaxAttemptsOf(CurStep(e))

StepOf(r) == workflow.steps[StepIndex(workflow.steps, r.stepId)]
SuccessTargets(step) ==
    IF step.type = "condition" THEN {step.onTrue, step.onFalse} ELSE {step.onSuccess}

\* C6: when the loop of a validated workflow has ended and every executed
\* step succeeded (no cancel was asked for), the status is 'success' and the
\* step results are the steps of the success path from startStep, once each
\* and in order: each result's step is the success target of the one before,
\* the last one has no success target.  A condition step's success targets are
\* its onTrue and onFalse.
C6_SuccessPath ==
    \A e \in ExecDocs :
        LET rs == execs[e].stepResults IN
        (/\ lp[e].pc = "done"
         /\ canc.exec # e
         /\ \A i \in 1..Len(rs) : rs[i].status = "success")
        =>
        /\ execs[e].status = "success"
        /\ Len(rs) > 0
        /\ rs[1].stepId = workflow.startStep
        /\ \A i \in 1..(Len(rs) - 1) : rs[i + 1].stepId \in SuccessTargets(StepOf(rs[i]))
        /\ Null \in SuccessTargets(StepOf(rs[Len(rs)]))
        /\ \A i, j \in 1..Len(rs) : rs[i].stepId = rs[j].stepId => i = j

\* C7: once cancelExecution has returned success for an execution, no step
\* execution is begun for it, neither a next step nor a retry.
C7_NothingStartsAfterCancel ==
    \A e \in ExecIds : lp[e].late = {}

\* the rollback jobs of an execution, in the order they were queued
Reverse(s) == [i \in 1..Len(s) |-> s[Len(s) + 1 - i]]

RollbackIds(js, e) ==
    LET sel == SelectSeq(js, LAMBDA j : j.tag = "rollback" /\ j.executionId = e)
    IN [i \in 1..Len(sel) |-> sel[i].stepId]

ExpectedRollback(e) ==
    LET declares(r) == /\ r.status = "success"
                       /\ StepIndex(workflow.steps, r.stepId) # 0
                       /\ StepOf(r).rollbackScriptId # Null
        sel == SelectSeq(execs[e].stepResults, declares)
    IN Reverse([i \in 1..Len(sel) |-> sel[i].stepId])

\* C8: rollback jobs are queued only in the step that marks an execution
\* 'rolled_back'; that step happens only for an execution completed as
\* 'failed' (by its loop or by initialize) of a workflow with rollbackEnabled,
\* and queues exactly one job per persisted 'success' result whose step
\* declares a rollbackScriptId, last completed first.
C8_RollbackExact ==
    [][\A e \in ExecDocs :
          IF execs[e].status # "rolled_back" /\ execs'[e].status = "rolled_back"
          THEN /\ workflow.rollbackEnabled
               /\ lp[e].final = "failed" \/ e \in init.interrupted
               /\ execs[e].status \notin {"running", "success"}
               /\ RollbackIds(jobs, e) = <<>>
               /\ RollbackIds(jobs', e) = ExpectedRollback(e)
               /\ Len(jobs') = Len(jobs) + Len(ExpectedRollback(e))
          ELSE RollbackIds(jobs', e) = RollbackIds(jobs, e)]_vars

C8_Witness ==
    \E e \in ExecDocs :
        /\ execs[e].status = "rolled_back"
        /\ Len(RollbackIds(jobs, e)) >= 2
        /\ RollbackIds(jobs, e) = ExpectedRollback(e)

\* C9: the tiers executed are tiers 1, 2, ... of the policy in that order,
\* every executed tier but the last reported failure, the side effects are
\* those of the executed tiers, and the execution carries one 'escalation'
\* alert entry, naming the successful tier, exactly when a tier succeeded.
C9_TiersInOrder ==
    \A e \in ExecDocs :
        LET log == lp[e].tierLog
            esc == SelectSeq(execs[e].alerts, LAMBDA a : a.type = "escalation")
            queued == SelectSeq(jobs, LAMBDA j : j.tag = "escalation" /\ j.executionId = e)
        IN /\ Len(log) <= Len(policy.tiers)
           /\ \A i \in 1..Len(log) :
                 /\ log[i].tier = i
                 /\ i < Len(log) => ~log[i].ok
                 /\ log[i].ok => policy.tiers[i] \in {"runScript", "webhook", "quarantine"}
           /\ Len(queued) = Cardinality({i \in 1..Len(log) : policy.tiers[i] = "runScript"})
           /\ IF Len(log) > 0 /\ log[Len(log)].ok
              THEN /\ esc = <<[type |-> "escalation", tier |-> Len(log)]>>
                   /\ lp[e].escRet = "success"
              ELSE /\ esc = <<>>
                   /\ lp[e].escRet # "success"

C9_Witness ==
    \E e \in ExecDocs :
        /\ Len(lp[e].tierLog) = 2
        /\ Len(policy.tiers) > 2
        /\ lp[e].tierLog[2].ok
        /\ lp[e].pc = "done"

\* C10: every escalate call that returned without a successful tier has
\* persisted an administrator alert for the execution.
C10_AlertOnFailure ==
    \A e \in ExecDocs :
        lp[e].escRet \notin {Null, "success"} =>
           \E i \in 1..Len(alerts) : alerts[i].executionId = e
\* ---------------------------------------------------------------- C11
\* the transitions of one step: onSuccess and onFailure, and onTrue and
\* onFalse of a condition step
Successors(s) ==
    ({s.onSuccess, s.onFailure}
       \cup (IF s.type = "condition" THEN {s.onTrue, s.onFalse} ELSE {})) \ {Null}

RECURSIVE ReachFrom(_, _, _)
ReachFrom(steps, frontier, seen) ==
    LET next == UNION {Successors(steps[StepIndex(steps, id)]) :
                         id \in {x \in frontier : StepIndex(steps, x) # 0}}
    IN IF next \subseteq seen THEN seen
       ELSE ReachFrom(steps, next \ seen, seen \cup next)

\* the transition graph contains a cycle: some step reaches itself
HasCycle(wf) ==
    \E i \in 1..Len(wf.steps) :
        wf.steps[i].id \in ReachFrom(wf.steps, {wf.steps[i].id}, {})

\* C11: validation reports a circular-dependency error exactly when the
\* transition graph (onSuccess, onFailure, and onTrue/onFalse of condition
\* steps) has a cycle, reachable from startStep or not; a trigger call gets
\* past validation only for a workflow without a cycle
C11_CycleIffCircularError ==
    /\ workflow.present => (checkCircularDependencies(workflow) <=> ~HasCycle(workflow))
    /\ \A c \in Calls : trig[c].pc = "insert" => ~HasCycle(workflow)

\* a trigger call was refused for a workflow whose only defect is a cycle
\* that the start step does not reach
C11_Witness ==
    /\ \E c \in Calls : trig[c].pc = "error"
    /\ workflow.present /\ workflow.enabled
    /\ HasCycle(workflow)
    /\ \A x \in ReachFrom(workflow.steps, {workflow.startStep}, {workflow.startStep}) :
          x \notin ReachFrom(workflow.steps, {x}, {})
    /\ workflow = WfIsland

\* ---------------------------------------------------------------- C12
\* every transition target of every step names a step of the workflow
AllTargetsExist(wf) ==
    \A i \in 1..Len(wf.steps) :
        {wf.steps[i].onSuccess, wf.steps[i].onFailure,
         wf.steps[i].onTrue, wf.steps[i].onFalse} \ {Null} \subseteq StepIdsOf(wf.steps)

\* C12: a workflow that passes validation has no transition target
\* (onSuccess, onFailure, onTrue, onFalse) naming a missing step, so no
\* execution ever stops on a step that is not found
C12_TargetsExist ==
    /\ (\E c \in Calls : trig[c].pc = "insert" \/ trig[c].created)
          => AllTargetsExist(workflow)
    /\ \A e \in ExecIds : lp[e].reason # "step not found"

\* ---------------------------------------------------------------- C13
\* the stored workflow is missing, disabled or rejected by validation
Malformed(wf) == ~wf.present \/ ~wf.enabled \/ ~validateWorkflow(wf)

Counted == {j \in 1..Len(jobs) : jobs[j].state = "pending" \/ jobs[j].state = "running"}

\* the process-wide ceiling
Ceiling == IF env.maxConcurrentJobs = 0 THEN DefaultMaxConcurrent
           ELSE env.maxConcurrentJobs

\* every configured limit of the schedule has headroom for one more job on
\* nodeId; the mesh of a node is the one the node directory (the connected
\* agents) gives
Headroom(schedule, nodeId) ==
    LET onNode == {j \in Counted : jobs[j].node = nodeId}
        inMesh == {j \in Counted : wsagents[jobs[j].node] = wsagents[nodeId]}
    IN /\ schedule.concurrency.maxPerNode # 0
            => Cardinality(onNode) < schedule.concurrency.maxPerNode
       /\ (schedule.concurrency.maxPerMesh # 0 /\ wsagents[nodeId] # Null)
            => Cardinality(inMesh) < schedule.concurrency.maxPerMesh
       /\ schedule.concurrency.maxGlobal # 0
            => Cardinality(Counted) < schedule.concurrency.maxGlobal
       /\ Cardinality(Counted) < Ceiling

C15_GatesFailOpen ==
    /\ \A t \in 1..Len(tasks) : tasks[t].err => tasks[t].pc \in {"insert", "done"}
    /\ \A f \in Firings :
          fir[f].maintErr # "none"
            => fir[f].out # "blocked" /\ fir[f].pc \in {"deps", "stats", "next", "done"}

\* a firing inside a window that blocks its priority got past the gate on a
\* lookup error, and its job creation got past a reached limit on a lookup
\* error
C15_Witness ==
    \E f \in Firings, t \in 1..Len(tasks) :
        /\ fir[f].maintErr = "find" /\ fir[f].out = "fired"
        /\ ~canJobRun(ScheduleOf(f), fir[f].ts, fir[f].ts, env, "none").allowed
        /\ tasks[t].firing = f /\ tasks[t].err /\ tasks[t].pc = "done"
        /\ ~Headroom(schedules[tasks[t].sid], tasks[t].node)

\* ---------------------------------------------------------------- C16
\* C16: the dependency gate fails open: a firing whose dependency lookup
\* raised is not stopped by the gate and goes on to resolve its targets
C16_DependencyGateFailsOpen ==
    \A f \in Firings :
        fir[f].depErr => fir[f].out = "fired" /\ fir[f].pc \in {"stats", "next", "done"}

\* ---------------------------------------------------------------- C17
\* C17: the limit check and the insert are separate store operations: a job
\* whose insert leaves maxPerNode, maxPerMesh or maxGlobal exceeded was
\* inserted on a check result that another insert had made stale in the
\* meantime (or on a failed lookup); the witness shows that such a state is
\* reached by two racing creations
C17_OvershootOnlyByRace ==
    \A t \in 1..Len(tasks) :
        (tasks[t].pc = "done" /\ tasks[t].over) => (tasks[t].stale \/ tasks[t].err)

\* two firings for one node both passed the check before either inserted:
\* two jobs are pending on a node whose limit is one
C17_Witness ==
    /\ \A t \in 1..Len(tasks) : ~tasks[t].err
    /\ \E t, u \in 1..Len(tasks) :
          /\ tasks[t].firing # tasks[u].firing
          /\ tasks[t].pc = "done" /\ tasks[u].pc = "done" /\ tasks[u].stale
          /\ tasks[t].node = tasks[u].node
          /\ schedules[tasks[u].sid].concurrency.maxPerNode = 1
          /\ Cardinality({j \in Counted : jobs[j].node = tasks[u].node}) = 2

\* ---------------------------------------------------------------- C18
\* the instant t lies in [s, s + duration], s being the latest instant at or
\* before t at which the window's cron expression fires
InWindowAt(window, t) ==
    LET past == {x \in window.fires : x <= t}
    IN past # {} /\ t <= Max(past) + window.duration

\* C18: for the timestamp a firing supplies, isInMaintenanceWindow answers
\* true exactly when the timestamp lies in [s, s + duration], s being the
\* latest fire instant of the window's cron expression at or before the
\* timestamp
C18_InsideIffAfterLatestStart ==
    \A f \in Firings, i \in 1..Len(env.windows) :
        fir[f].pc = "maint"
          => (isInMaintenanceWindow(env.windows[i], fir[f].ts, clock, env.cronLib, FALSE)
                <=> InWindowAt(env.windows[i], fir[f].ts))

\* ---------------------------------------------------------------- C19
\* the enabled windows the schedule references that contain t, in store order
Containing(schedule, t) ==
    SelectSeq(env.windows,
              LAMBDA w : /\ \E i \in 1..Len(schedule.maintenanceWindowIds) :
                              schedule.maintenanceWindowIds[i] = w.id
                         /\ w.enabled
                         /\ InWindowAt(w, t))

\* C19: a firing whose window lookups did not raise is blocked exactly when
\* some enabled referenced window contains its timestamp and the first such
\* window does not list the schedule's priority; without referenced windows,
\* with only disabled ones or outside every window it is allowed
C19_FirstContainingWindowDecides ==
    \A f \in Firings :
        (fir[f].pc \notin {"idle", "maint"} /\ fir[f].maintErr = "none")
          => LET hit == Containing(ScheduleOf(f), fir[f].ts)
             IN (fir[f].out = "blocked")
                  <=> (hit # <<>> /\ ScheduleOf(f).priority \notin hit[1].allowedPriorities)

\* ---------------------------------------------------------------- C20
\* the step in which firing f is denied by a window or by its dependencies
Denied(f) ==
    /\ fir[f].pc \in {"maint", "deps"}
    /\ fir'[f].pc = "done" /\ fir'[f].out \in {"blocked", "deps"}

InQueue(s) == \E i \in 1..Len(jobQueue) : jobQueue[i].scheduleId = s

\* a firing of the stored schedule s at this instant is blocked by a
\* maintenance window
Blocks(s) ==
    /\ s \in DOMAIN schedules
    /\ ~canJobRun(schedules[s], clock, clock, env, "none").allowed

\* a job creation of a firing of schedule s has inserted its job
JobMade(s) == \E t \in 1..Len(tasks) : tasks[t].sid = s /\ tasks[t].pc = "done"

C22_GateComparesWithStoredLastRun ==
    [][\A f \in Firings :
         /\ (fir[f].pc = "deps" /\ fir'[f].pc = "stats")
              => \A i \in 1..Len(ScheduleOf(f).dependsOn) :
                    LET depId == ScheduleOf(f).dependsOn[i]
                    IN /\ depId \in DOMAIN schedules
                       /\ schedules[depId].lastRun # 0
                       /\ schedules[depId].lastRun >= fir[f].seen
         /\ (Denied(f) /\ fir'[f].out = "deps")
              => jobs' = jobs /\ tasks' = tasks /\ jobQueue' = jobQueue]_vars

\* ---------------------------------------------------------------- C23
\* C23: every stored schedule that is disabled has no nextRun, and the nextRun
\* of every stored schedule that is enabled is a fire instant of its cron
\* expression at or after the current instant
C23_NextRunInvariant ==
    \A s \in DOMAIN schedules :
        IF schedules[s].enabled
        THEN /\ schedules[s].nextRun >= clock
             /\ cronMatches(schedules[s].cronExpression, schedules[s].nextRun)
        ELSE schedules[s].nextRun = 0

\* ---------------------------------------------------------------- C24
\* C24: for a stored schedule whose cron expression has fire instants left,
\* getNextRuns(scheduleId, count) returns count instants: the first is the
\* expression's next fire instant after the instant of the call, each
\* further one the next fire instant after the one before it, so none is
\* earlier than the call and the sequence is strictly increasing
C24_PreviewIsIncreasing ==
    (call.fn = "getNextRuns" /\ call.scheduleId \in DOMAIN schedules)
      => LET expr == schedules[call.scheduleId].cronExpression
             runs == call.result
         IN /\ Len(runs) = call.count
            /\ \A i \in 1..Len(runs) :
                  /\ runs[i] >= call.at
                  /\ runs[i] = cronNext(expr, IF i = 1 THEN call.at ELSE runs[i - 1])
            /\ \A i \in 1..(Len(runs) - 1) : runs[i] < runs[i + 1]

\* ---------------------------------------------------------------- C25
\* schedule s has been paused and not resumed, or deleted
Stopped(s) == s \notin DOMAIN schedules \/ ~schedules[s].enabled

\* the step in which job creation t inserts its job
Inserts(t) ==
    /\ Len(tasks') = Len(tasks)
    /\ tasks[t].pc = "insert"
    /\ tasks'[t].pc = "done"

\* C25: no job is inserted for a schedule that is paused or deleted at that
\* moment, whether the firing came from the cron timer or from the job queue
\* and whether or not its timers were already pending
C25_NoJobWhileStopped ==
    [][\A t \in 1..Len(tasks) : Inserts(t) => ~Stopped(tasks[t].sid)]_vars

\* ---------------------------------------------------------------- C26
\* C26: once shutdown has returned, no timer of the scheduler fires: no
\* handleScheduleTrigger call starts, no pending timer of a job creation
\* runs, and no job is inserted
C26_NothingFiresAfterShutdown ==
    [][(~checkInterval /\ ~checkInterval') =>
         /\ \A f \in Firings : fir[f].pc = "idle" => fir'[f].pc = "idle"
         /\ Len(tasks') = Len(tasks)
              => \A t \in 1..Len(tasks) : tasks[t].pc = "timer" => tasks'[t].pc = "timer"
         /\ jobs' = jobs]_vars


\* ---------------------------------------------------------------- C27
\* the step attempts of execution e whose work is going on: the one the loop
\* waits for and those left behind by a timeout
InProgress(e) ==
    lp[e].stray \cup
      (IF lp[e].pc \in {"poll", "webhook", "delay"} THEN {WorkOf(lp[e])} ELSE {})

\* C27: within one execution at most one step attempt's work is in progress
\* at any time: the polling, request or sleep of an attempt that lost the
\* timeout race has ended before a retry or the next step starts its work.
C27_StepsSequential ==
    \A e \in ExecIds : Cardinality(InProgress(e)) <= 1


\* ---------------------------------------------------------------- C28
\* C28: a step attempt that fails without throwing (a job that ends in state
\* 'error', a webhook answered with a failure) is retried under the step's
\* retryPolicy like one that throws or times out: while the policy allows a
\* retry, no attempt ends with a recorded failure.
C28_FailuresRetriedAlike ==
    [][\A e \in ExecIds :
          (lp[e].pc \in {"poll", "webhook", "delay"} /\ lp'[e].res = "failed")
            => ~ShouldRetry(MemResults(e), CurStep(e))]_vars


\* ---------------------------------------------------------------- C29
\* every part of the path names a property that is there
RECURSIVE Reaches(_, _)
Reaches(obj, path) ==
    \/ path = <<>>
    \/ /\ obj.t \in {"object", "array"}
       /\ Head(path) \in DOMAIN obj.f
       /\ Reaches(obj.f[Head(path)], Tail(path))

Numeric(v) == v.t = "number" \/ (v.t = "string" /\ v.s \in DOMAIN Numerals)

\* the condition's type is unknown, or what it refers to cannot be extracted
\* from the step result
CannotExtract(c, r) ==
    \/ c.type \notin {"exitCode", "outputPattern", "threshold", "jsonPath", "composite"}
    \/ /\ c.type = "threshold"
       /\ ~Reaches(r, c.field) \/ ~Numeric(extractField(r, c.field))
    \/ /\ c.type = "jsonPath"
       /\ ~Reaches(JsonData(r), c.path)

\* C29: condition evaluation fails closed: evaluate answers false when the
\* condition type is unknown or the field or path cannot be extracted from
\* the step result (missing field, null intermediate, non-numeric value for
\* a threshold), whatever the comparison operator.
C29_ConditionsFailClosed ==
    (call.fn = "evaluate" /\ CannotExtract(call.condition, call.jobResult))
      => call.result = FALSE


\* ---------------------------------------------------------------- C30
\* the node has an active quarantine record
Quarantined(docs, node) ==
    \E q \in 1..Len(docs) : docs[q].nodeId = node /\ docs[q].active

\* C30: while a node has an active quarantine record no new pending job for
\* it is created, and the jobs of the node that were pending when
\* quarantineNode ran have been cancelled.
C30_QuarantineStopsJobs ==
    [][/\ \A j \in 1..Len(jobs') :
            (j > Len(jobs) /\ jobs'[j].state = "pending")
              => ~Quarantined(quarantine, jobs'[j].node)
       /\ \A n \in Nodes :
            (~Quarantined(quarantine, n) /\ Quarantined(quarantine', n))
              => \A j \in 1..Len(jobs) :
                    (jobs[j].node = n /\ jobs[j].state = "pending")
                      => jobs'[j].state = "cancelled"]_vars


\* ---------------------------------------------------------------- C31
\* C31: once completeExecution has run for an execution the engine holds no
\* activeExecutions entry and no armed step timer for it, and the loop of
\* the execution registers no timer afterwards.
C31_NothingHeldAfterCompletion ==
    \A e \in ExecDocs :
        execs[e].status \in Terminal => e \notin active /\ \A t \in timers : t[1] # e


\* ---------------------------------------------------------------- C32
\* C32: a script step stops polling as soon as its job is in a terminal
\* state, complete, error or cancelled: whenever the loop polls such a job,
\* the read that ends the polling and maps the state to the step result can
\* be taken.
C32_PollStopsAtTerminalJob ==
    \A e \in ExecDocs :
        (lp[e].pc = "poll" /\ jobs[lp[e].job].state \in {"complete", "error", "cancelled"})
          => ENABLED LoopPoll(e)


\* ---------------------------------------------------------------- C33
\* a step of an agent, which runs a job and reports its end
AgentStep ==
    \/ \E j \in 1..Len(jobs) : JobRun(j)
    \/ \E j \in 1..Len(jobs), ok \in BOOLEAN : JobFinish(j, ok)

\* C33: job states are monotonic: no step of the engine, the escalation
\* manager or the action handler removes a job record, moves a job back to
\* 'pending' or changes a job that has left 'pending'; the only change they
\* make to a stored job is pending -> cancelled, and retries, tiers and
\* rollbacks insert new records.
C33_JobStatesMonotonic ==
    [][~AgentStep =>
         /\ Len(jobs') >= Len(jobs)
         /\ \A j \in 1..Len(jobs) :
               \/ jobs'[j] = jobs[j]
               \/ /\ jobs[j].state = "pending"
                  /\ jobs'[j] = [jobs[j] EXCEPT !.state = "cancelled"]]_vars

\* a job was cancelled and the retry of its step has inserted a second
\* record, while a job that has ended keeps its state
C33_Witness ==
    \E j, k \in 1..Len(jobs) :
        /\ j < k
        /\ jobs[j].state = "cancelled"
        /\ jobs[k].executionId = jobs[j].executionId
        /\ jobs[k].stepId = jobs[j].stepId
        /\ jobs[k].state = "pending"


\* ---------------------------------------------------------------- C34
\* the delay the retry policy of the step asks for after n retries
BackoffAfter(step, n) ==
    LET base == IF step.delaySeconds = 0 THEN 60 ELSE step.delaySeconds
        d == IF step.backoffType = "linear" THEN base * (n + 1) ELSE base * 2 ^ n
    IN IF d < 3600 THEN d ELSE 3600

\* C34: the delay returned for a step that has consumed n retries is
\* min(base * 2^n, 3600) for exponential and min(base * (n+1), 3600) for
\* linear backoff, base being retryPolicy.delaySeconds or 60.
C34_BackoffGrows ==
    [][\A e \in ExecIds :
          (lp[e].pc # "backoff" /\ lp'[e].pc = "backoff"
             /\ CurStep(e).backoffType \in {Null, "exponential", "linear"})
            => lp'[e].delay = BackoffAfter(CurStep(e), lp[e].tries - 1)]_vars


\* ---------------------------------------------------------------- C35
\* C35: an execution is stored with status 'success' only if the last step
\* result recorded for it has status 'success'.
C35_SuccessMeansLastStepSucceeded ==
    \A e \in ExecDocs :
        execs[e].status = "success"
          => /\ Len(execs[e].stepResults) > 0
             /\ execs[e].stepResults[Len(execs[e].stepResults)].status = "success"


\* ---------------------------------------------------------------- C36
\* C36: while the scheduler runs, every stored schedule with enabled true
\* has a timer in cronJobs that is not paused, and every timer in cronJobs
\* belongs to a stored schedule.
C36_TimersMatchSchedules ==
    checkInterval =>
      /\ \A s \in DOMAIN schedules :
            schedules[s].enabled => s \in DOMAIN cronJobs /\ ~cronJobs[s].paused
      /\ \A s \in DOMAIN cronJobs : s \in DOMAIN schedules

QueuedPriority(i) == schedules[jobQueue[i].scheduleId].priority

EachStepOnce(e) ==
    \A i, j \in 1..Len(MemResults(e)) :
        MemResults(e)[i].stepId = MemResults(e)[j].stepId => i = j

\* C39: in an execution of a validated workflow every step id occurs at most
\* once in stepResults, and if every step attempt returns the execution
\* reaches a terminal status
C39_ValidatedRunEnds ==
    /\ [](\A e \in ExecDocs : EachStepOnce(e))
    /\ \A e \in ExecIds : (e \in ExecDocs) ~> (e \in ExecDocs /\ execs[e].status \in Terminal)

\* ---------------------------------------------------------------- C40
\* addOrUpdateSchedule is called with a cron expression that cannot be parsed
UnparseableEdit == \E s \in SchedIds : addOrUpdateSchedule(s, Unparseable)

\* C40: a call of addOrUpdateSchedule with an unparseable cron expression
\* changes no stored schedule and no timer
C40_UnparseableRejected ==
    [][UnparseableEdit => (schedules' = schedules /\ cronJobs' = cronJobs)]_vars

====
